---- MODULE Spec2Model ----
(***************************************************************************)
(* Verification model of asteria-case-summarizer.                          *)
(*                                                                         *)
(*   SpecClient / FairClient  LLMSummarizer.generate_summary: rate-limit   *)
(*                            wait, retry loop, backoff, failure classes   *)
(*   SpecBackoff              LLMSummarizer._handle_rate_limit_with_backoff *)
(*   SpecClassify             AsteriaFetcher._is_customer_message           *)
(*   SpecMerge                AsteriaFetcher._convert_timeline_to_emails    *)
(*   SpecBatch                process_all of AsteriaSummarizer and of the   *)
(*                            two AsteriaBatchProcessor classes             *)
(*   SpecParse                LLMSummarizer._parse_response and             *)
(*                            build_summary_text                            *)
(*   SpecExtract              AsteriaHTMLParser.parse_all_tickets           *)
(*                                                                         *)
(* Time is counted in hundredths of a second so that base * 2^attempt *    *)
(* jitter, with the jitter given in percent, is an exact integer.          *)
(***************************************************************************)
EXTENDS Integers, Sequences, FiniteSets, TLC

VARIABLES
    \* ---- LLMSummarizer instance and one generate_summary invocation ----
    pc,              \* position inside generate_summary
    now,             \* time.time(), in 1/100 s
    last_call_time,  \* self.last_call_time, in 1/100 s
    interval,        \* the invocation's interval argument, in s
    attempt,         \* loop variable of "for attempt in range(MAX_RETRIES)"
    last_error,      \* local last_error (None or the transient kind)
    wait_time,       \* local wait_time of the except branch being run
    error,           \* the RuntimeError raised by the invocation, or None
    \* ---- observations of the client (history, not program state) ----
    invocations,     \* generate_summary invocations started so far
    calls,           \* external calls made by the current invocation
    sleeps,          \* backoff sleeps made by the current invocation
    rate_checks,     \* _wait_for_rate_limit evaluations of the invocation
    last_outcome,    \* outcome of the invocation's most recent external call
    call_end,        \* <<completion time>> of the most recent external call, or <<>>
    \* ---- _handle_rate_limit_with_backoff as a pure function ----
    b_attempt, b_jitter, b_wait, b_next,
    \* ---- AsteriaFetcher._is_customer_message on one actor string ----
    c_user,          \* the actor X, a string of characters
    c_party,         \* the other party Y of the routed form "X to Y"
    c_done,          \* the classifications below have been computed
    c_plain,         \* _is_customer_message(X)
    c_routed,        \* _is_customer_message(X + " to " + Y)
    \* ---- AsteriaFetcher._convert_timeline_to_emails ----
    mpc,             \* position inside _convert_timeline_to_emails
    fetcher,         \* the AsteriaFetcher instance the call runs on
    timeline,        \* the timeline argument
    k,               \* index of the entry the for loop is at
    emails,          \* local emails
    current_body,    \* local current_body
    current_is_incoming, \* local, {} for None
    current_user,    \* local, {} for None
    current_date,    \* local, {} for None
    \* ---- observations of the reconstructor ----
    timeline_in,     \* the entries as they were passed in
    runs,            \* calls of _convert_timeline_to_emails so far
    memo,            \* {} or {input and output of the first call}
    \* ---- process_all: the batch loop over the tickets of a document ----
    bpc,             \* position inside process_all
    variant,         \* which of the three process_all is running
    use_llm,         \* self.use_llm and self.llm_summarizer (AsteriaSummarizer)
    dry_run,         \* the dry_run argument (batch_processor.py)
    document,        \* the rows of the HTML export, in document order
    limit,           \* the limit argument, <<>> for None
    tickets,         \* local tickets
    idx,             \* position of the for loop in tickets
    results,         \* local results
    summary,         \* <<>> for None, or <<the summary process_ticket returned>>
    exc,             \* the exception that is propagating, or None
    db,              \* case numbers stored in the summaries table
    \* ---- observations of the batch loop ----
    visited,         \* one record per finished loop iteration
    llm_calls,       \* generate_summary invocations made by the batch
    llm_result,      \* what the iteration's generate_summary invocation did
    \* ---- LLMSummarizer._parse_response and build_summary_text ----
    ppc,             \* position: response received, parsed, text built
    raw_text,        \* the raw_text argument, a sequence of symbols
    parsed,          \* the dictionary _parse_response returned
    summary_text,    \* the text build_summary_text returned
    summary_metadata, \* summary["metadata"] when process_ticket returns
    \* ---- observations of the parser ----
    response,        \* how raw_text was written
    \* ---- AsteriaHTMLParser.parse_all_tickets ----
    xpc,             \* position inside parse_all_tickets
    html,            \* the export document at self.html_path
    self_tickets,    \* self._tickets: <<>> for None, or <<the list>>
    row_tickets,     \* the list that line 82 is building
    xret,            \* what the last call returned or raised
    \* ---- AsteriaHTMLParser._clean_details_html ----
    details_html,    \* the html argument of _clean_details_html, a sequence of nodes
    cleaned,         \* <<>> before the call, then <<the text returned>>
    \* ---- AsteriaHTMLParser.extract_timeline ----
    raw_html,        \* ticket.raw_html as parsed, the sequence of its sibling nodes
    string_named,    \* whether a string of the parsed tree has a name attribute
    entries          \* <<>> before extract_timeline, then <<the list returned>>

clientVars == <<pc, now, last_call_time, interval, attempt, last_error,
                wait_time, error, invocations, calls, sleeps, rate_checks,
                last_outcome, call_end>>
backoffVars == <<b_attempt, b_jitter, b_wait, b_next>>
classifyVars == <<c_user, c_party, c_done, c_plain, c_routed>>
mergeVars == <<mpc, fetcher, timeline, k, emails, current_body,
               current_is_incoming, current_user, current_date,
               timeline_in, runs, memo>>
batchVars == <<bpc, variant, use_llm, dry_run, document, limit, tickets, idx,
               results, summary, exc, db, visited, llm_calls, llm_result>>
parseVars == <<ppc, raw_text, parsed, summary_text, summary_metadata,
              response>>
extractVars == <<xpc, html, self_tickets, row_tickets, xret>>
cleanVars == <<details_html, cleaned>>
timelineVars == <<raw_html, string_named, entries>>
vars == <<clientVars, backoffVars, classifyVars, mergeVars, batchVars,
          parseVars, extractVars,
          cleanVars,
          timelineVars>>

None == "None"
\* no RuntimeError raised (yet)
NoError == [kind |-> "none", cause |-> None]

Min(a, b) == IF a <= b THEN a ELSE b

\* ------------------------------------------------------------------------
\* Program constants (llm_summarizer.py)
\* ------------------------------------------------------------------------
DEFAULT_INTERVAL == 4
MAX_RETRIES == 5
MAX_BACKOFF_TIME == 300
BASE_BACKOFF_TIME == 60

\* ------------------------------------------------------------------------
\* Bounds of the model
\* ------------------------------------------------------------------------
MaxInvocations == 2     \* generate_summary invocations per behaviour
CallDur == 1            \* an external call lasts CallDur seconds
MaxIdle == 5            \* the caller idles 0 or MaxIdle seconds before an invocation
StartClock == 1000      \* time.time() at construction, in s (any value > interval)

\* random.uniform(0.8, 1.2), in percent
JitterRange == 80..120
\* the jitters the client draws in the model: both ends of the range
ClientJitters == {80, 120}

\* Exception classes generate_content can raise, as the except clauses see them
TransientKinds == {"ResourceExhausted", "DeadlineExceeded", "ServiceUnavailable"}
FatalKinds == {"InvalidArgument"}
\* "ok": a response whose text is read and parsed;
\* "unreadable": generate_content returned, reading response.text raised
Outcomes == {"ok", "unreadable"} \cup TransientKinds \cup FatalKinds

Pow2(n) == 2 ^ n

\* the cap applied to base_wait instead of to base_wait * jitter
BackoffCapBeforeJitter(a, jitter) ==
    Min(BASE_BACKOFF_TIME * Pow2(a), MAX_BACKOFF_TIME) * jitter
\* _handle_rate_limit_with_backoff: wait in 1/100 s, jitter in percent
handle_rate_limit_with_backoff(a, jitter) ==
    LET base_wait == BASE_BACKOFF_TIME * Pow2(a)
    IN  Min(base_wait * jitter, MAX_BACKOFF_TIME * 100)

\* every failure retried
IsTransientAll(kind) == kind \in TransientKinds \cup FatalKinds
\* the except clauses of generate_summary: which kinds are retried
IsTransient(kind) == kind \in TransientKinds

\* range(MAX_RETRIES + 1), and a loop that never gives up
LoopOneMore(a) == a <= MAX_RETRIES
LoopForever(a) == TRUE
\* "for attempt in range(MAX_RETRIES)": the loop body runs for this attempt
LoopContinues(a) == a < MAX_RETRIES

\* ------------------------------------------------------------------------
\* LLMSummarizer
\* ------------------------------------------------------------------------
\* __init__: last_call_time = 0.0
InitClient ==
    /\ pc = "idle"
    /\ now = 100 * StartClock
    /\ last_call_time = 0
    /\ interval = DEFAULT_INTERVAL
    /\ attempt = 0
    /\ last_error = None
    /\ wait_time = 0
    /\ error = NoError
    /\ invocations = 0
    /\ calls = 0
    /\ sleeps = 0
    /\ rate_checks = 0
    /\ last_outcome = None
    /\ call_end = <<>>

\* How long the caller waits before it invokes: the second invocation comes
\* at once or after MaxIdle seconds, every later one at once; before the first
\* invocation of a fresh instance the clock reads StartClock whatever the
\* caller did
IdleTimes == IF invocations = 1 THEN {0, MaxIdle} ELSE {0}

\* a caller enters generate_summary (after idling for a while)
Invoke ==
    /\ pc \in {"idle", "success", "failed"}
    /\ invocations < MaxInvocations
    /\ \E idle \in IdleTimes : now' = now + 100 * idle
    /\ pc' = "rate_limit"
    /\ interval' = DEFAULT_INTERVAL
    /\ invocations' = invocations + 1
    /\ attempt' = 0
    /\ last_error' = None
    /\ wait_time' = 0
    /\ error' = NoError
    /\ calls' = 0
    /\ sleeps' = 0
    /\ rate_checks' = 0
    /\ last_outcome' = None
    /\ UNCHANGED <<last_call_time, call_end>>

\* _wait_for_rate_limit(interval), then the prompt and last_error = None
WaitForRateLimit ==
    /\ pc = "rate_limit"
    /\ LET elapsed == now - last_call_time
       IN  now' = IF elapsed < 100 * interval
                  THEN now + (100 * interval - elapsed)
                  ELSE now
    /\ rate_checks' = rate_checks + 1
    /\ pc' = "loop"
    /\ UNCHANGED <<last_call_time, interval, attempt, last_error, wait_time,
                   error, invocations, calls, sleeps, last_outcome, call_end>>

\* the loop body starts: self.model.generate_content(prompt) is called
CallStart ==
    /\ pc = "loop"
    /\ LoopContinues(attempt)
    /\ calls <= MAX_RETRIES      \* one call past the loop's bound is observed, no more
    /\ pc' = "calling"
    /\ calls' = calls + 1
    /\ UNCHANGED <<now, last_call_time, interval, attempt, last_error,
                   wait_time, error, invocations, sleeps, rate_checks,
                   last_outcome, call_end>>

\* the call returns a response that is read and parsed: return parsed, raw_text
CallSucceeds ==
    /\ pc = "calling"
    /\ \E d \in {CallDur} :
         /\ now' = now + 100 * d
         /\ call_end' = <<now'>>
         /\ last_call_time' = now'
    /\ last_outcome' = "ok"
    /\ pc' = "success"
    /\ UNCHANGED <<interval, attempt, last_error, wait_time, error,
                   invocations, calls, sleeps, rate_checks>>

\* the call returns, last_call_time is set, and response.text raises:
\* "except Exception" turns it into a RuntimeError
CallUnreadable ==
    /\ pc = "calling"
    /\ \E d \in {CallDur} :
         /\ now' = now + 100 * d
         /\ call_end' = <<now'>>
         /\ last_call_time' = now'
    /\ last_outcome' = "unreadable"
    /\ error' = [kind |-> "api", cause |-> "unreadable"]
    /\ pc' = "failed"
    /\ UNCHANGED <<interval, attempt, last_error, wait_time,
                   invocations, calls, sleeps, rate_checks>>

\* the call raises one of the retried classes: the backoff wait is computed
CallTransient ==
    /\ pc = "calling"
    /\ \E kind \in Outcomes \ {"ok", "unreadable"}, d \in {CallDur},
          jitter \in ClientJitters :
         /\ IsTransient(kind)
         /\ now' = now + 100 * d
         /\ call_end' = <<now'>>
         /\ last_outcome' = kind
         /\ wait_time' = handle_rate_limit_with_backoff(attempt, jitter)
    /\ pc' = "backoff"
    /\ UNCHANGED <<last_call_time, interval, attempt, last_error, error,
                   invocations, calls, sleeps, rate_checks>>

\* time.sleep(wait_time); last_error = e; next iteration
BackoffSleep ==
    /\ pc = "backoff"
    /\ now' = now + wait_time
    /\ sleeps' = sleeps + 1
    /\ last_error' = last_outcome
    /\ attempt' = attempt + 1
    /\ pc' = "loop"
    /\ UNCHANGED <<last_call_time, interval, wait_time, error, invocations,
                   calls, rate_checks, last_outcome, call_end>>

\* the failing call stamps last_call_time as well
CallFatalStampsTime ==
    /\ pc = "calling"
    /\ \E kind \in Outcomes \ {"ok", "unreadable"}, d \in {CallDur} :
         /\ ~IsTransient(kind)
         /\ now' = now + 100 * d
         /\ call_end' = <<now'>>
         /\ last_call_time' = now'
         /\ last_outcome' = kind
         /\ error' = [kind |-> "api", cause |-> kind]
    /\ pc' = "failed"
    /\ UNCHANGED <<interval, attempt, last_error, wait_time,
                   invocations, calls, sleeps, rate_checks>>
\* the call raises anything else: raise RuntimeError at once
CallFatal ==
    /\ pc = "calling"
    /\ \E kind \in Outcomes \ {"ok", "unreadable"}, d \in {CallDur} :
         /\ ~IsTransient(kind)
         /\ now' = now + 100 * d
         /\ call_end' = <<now'>>
         /\ last_outcome' = kind
         /\ error' = [kind |-> "api", cause |-> kind]
    /\ pc' = "failed"
    /\ UNCHANGED <<last_call_time, interval, attempt, last_error, wait_time,
                   invocations, calls, sleeps, rate_checks>>

\* the loop is exhausted: raise RuntimeError(... str(last_error))
RetriesExhausted ==
    /\ pc = "loop"
    /\ ~LoopContinues(attempt)
    /\ error' = [kind |-> "retries", cause |-> last_error]
    /\ pc' = "failed"
    /\ UNCHANGED <<now, last_call_time, interval, attempt, last_error,
                   wait_time, invocations, calls, sleeps, rate_checks,
                   last_outcome, call_end>>

InvocationStep ==
    \/ WaitForRateLimit
    \/ CallStart
    \/ CallSucceeds
    \/ CallUnreadable
    \/ CallTransient
    \/ BackoffSleep
    \/ CallFatal
    \/ RetriesExhausted

\* ------------------------------------------------------------------------
\* _handle_rate_limit_with_backoff on every attempt of the loop and every
\* jitter of random.uniform(0.8, 1.2), at a resolution of 1 %
\* ------------------------------------------------------------------------
InitBackoff ==
    /\ b_attempt \in 0..(MAX_RETRIES - 1)
    /\ b_jitter \in JitterRange
    /\ b_wait = <<>>
    /\ b_next = <<>>

\* the wait of this attempt
ComputeBackoff ==
    /\ b_wait = <<>>
    /\ b_wait' = <<handle_rate_limit_with_backoff(b_attempt, b_jitter)>>
    /\ UNCHANGED <<b_attempt, b_jitter, b_next>>

\* the wait of the following attempt, under the same jitter
ComputeNextBackoff ==
    /\ b_wait # <<>>
    /\ b_next = <<>>
    /\ b_attempt + 1 < MAX_RETRIES
    /\ b_next' = <<handle_rate_limit_with_backoff(b_attempt + 1, b_jitter)>>
    /\ UNCHANGED <<b_attempt, b_jitter, b_wait>>

\* ------------------------------------------------------------------------
\* Strings the classifier looks into are sequences of characters
\* ------------------------------------------------------------------------
MegumiHashimoto ==
    <<"M","e","g","u","m","i"," ","H","a","s","h","i","m","o","t","o">>
NaoOki == <<"N","a","o"," ","O","k","i">>
EmiriMiyamoto == <<"E","m","i","r","i"," ","M","i","y","a","m","o","t","o">>
GoEnomoto == <<"G","o"," ","E","n","o","m","o","t","o">>
CDataJapanSupport ==
    <<"C","D","a","t","a"," ","J","a","p","a","n"," ","S","u","p","p","o","r","t">>
\* an actor of neither set
Support == <<"S","u","p","p","o","r","t">>
Asteria == <<"A","s","t","e","r","i","a">>
Unknown == <<"U","n","k","n","o","w","n">>

\* asteria_fetcher.py:38-49
CUSTOMER_USERS == {MegumiHashimoto, NaoOki, EmiriMiyamoto, GoEnomoto}
SUPPORT_USERS == {CDataJapanSupport}

\* \s of the re module and the white space of str.strip(), among the
\* characters of the texts modelled here
IsSpace(c) == c \in {" ", "\t", "\n"}

\* str.strip()
Strip(str) ==
    LET keep == {i \in 1..Len(str) : ~IsSpace(str[i])}
    IN  IF keep = {} THEN <<>>
        ELSE LET lo == CHOOSE i \in keep : \A j \in keep : i <= j
                 hi == CHOOSE i \in keep : \A j \in keep : j <= i
             IN  SubSeq(str, lo, hi)

\* r"\s+to\s+.+$" matches str from position i on: a run of whitespace
\* str[i..j], "to", at least one whitespace, at least one more character up
\* to the end (. matches every character but the newline)
SuffixMatchesAt(str, i) ==
    \E j \in i..Len(str) :
        /\ \A m \in i..j : IsSpace(str[m])
        /\ j + 3 < Len(str)
        /\ str[j + 1] = "t"
        /\ str[j + 2] = "o"
        /\ IsSpace(str[j + 3])

\* re.sub(r"\s+to\s+.+$", "", str): the leftmost match runs to the end
SubRoutingSuffix(str) ==
    LET starts == {i \in 1..Len(str) : SuffixMatchesAt(str, i)}
    IN  IF starts = {} THEN str
        ELSE LET first == CHOOSE i \in starts : \A j \in starts : i <= j
             IN  SubSeq(str, 1, first - 1)

\* the suffix left in place
UserCleanKeepsSuffix(user) == Strip(user)
\* user_clean = re.sub(r"\s+to\s+.+$", "", user.strip())
user_clean(user) == SubRoutingSuffix(Strip(user))

\* AsteriaFetcher._is_customer_message
is_customer_message(user) ==
    IF user_clean(user) \in CUSTOMER_USERS THEN TRUE
    ELSE IF user_clean(user) \in SUPPORT_USERS THEN FALSE
    ELSE FALSE

\* str.replace(" ", "_")
ReplaceSpaces(str) == [i \in 1..Len(str) |-> IF str[i] = " " THEN "_" ELSE str[i]]

\* ------------------------------------------------------------------------
\* _is_customer_message on actors built from up to MaxTokens pieces
\* ------------------------------------------------------------------------
MaxTokens == 4

ActorTokens == {NaoOki, GoEnomoto, CDataJapanSupport, Support,
                <<" ">>, <<"\t">>, <<"t","o">>}
OtherParties == {CDataJapanSupport, NaoOki}

RECURSIVE Concat(_)
Concat(pieces) ==
    IF pieces = <<>> THEN <<>> ELSE Head(pieces) \o Concat(Tail(pieces))

Actors ==
    {Concat(ps) : ps \in UNION {[1..n -> ActorTokens] : n \in 0..MaxTokens}}

\* the routed form of an actor: "X to Y"
Routed(x, y) == x \o <<" ","t","o"," ">> \o y

InitClassify ==
    /\ c_user \in Actors
    /\ c_party \in OtherParties
    /\ c_done = FALSE
    /\ c_plain = FALSE
    /\ c_routed = FALSE

ClassifyActor ==
    /\ ~c_done
    /\ c_plain' = is_customer_message(c_user)
    /\ c_routed' = is_customer_message(Routed(c_user, c_party))
    /\ c_done' = TRUE
    /\ UNCHANGED <<c_user, c_party>>

\* ------------------------------------------------------------------------
\* AsteriaFetcher._convert_timeline_to_emails
\* ------------------------------------------------------------------------
MaxEntries == 3         \* entries of a timeline
MaxRuns == 3            \* calls of _convert_timeline_to_emails per behaviour
Fetchers == {"fetcher_a", "fetcher_b"}

\* the ticket argument (only its id and title are read)
TheTicket == [ticket_id |-> "853689", title |-> "MSTeams message size"]

\* actors of the entries: a customer, the same customer with a routing
\* annotation, the support user, an actor of neither set
EntryUsers == {NaoOki, Routed(NaoOki, CDataJapanSupport), CDataJapanSupport,
               Support}
\* action and content of the entries: one without and one with content
EntryKinds == {[action_type |-> "OPENED", content |-> ""],
               [action_type |-> "EDITED", content |-> "added log"]}

\* TimelineEntry; the entries of a ticket are in document order,
\* the i-th carrying the i-th timestamp
TimelineOf(us, ks) ==
    [i \in 1..Len(us) |->
        [timestamp |-> i, action_type |-> ks[i].action_type,
         user |-> us[i], content |-> ks[i].content]]

Timelines ==
    UNION {{TimelineOf(us, ks) : us \in [1..n -> EntryUsers],
                                 ks \in [1..n -> EntryKinds]} :
           n \in 0..MaxEntries}

\* "\n".join(lines), the lines being sequences of pieces
RECURSIVE Join(_)
Join(lines) ==
    IF lines = <<>> THEN <<>>
    ELSE IF Len(lines) = 1 THEN lines[1]
    ELSE Head(lines) \o <<"\n">> \o Join(Tail(lines))

\* the content is left out of the line
TaggedLineBare(entry) == <<"[", entry.action_type, "]">>
\* f"[{entry.action_type}] {entry.content}" or f"[{entry.action_type}]"
TaggedLine(entry) ==
    IF entry.content # ""
    THEN <<"[", entry.action_type, "]", " ", entry.content>>
    ELSE <<"[", entry.action_type, "]">>

\* "current_date or <timestamp>": a datetime is never falsy ({} is None)
DateOr(opt, default) ==
    IF opt = {} THEN default ELSE CHOOSE x \in opt : TRUE

\* current_user or "Unknown": None and the empty string are falsy
UserOr(opt, default) ==
    IF opt = {} \/ opt = {<<>>} THEN default ELSE CHOOSE x \in opt : TRUE

\* from_address taken from the entry on both sides
CreateEmailActorBothSides(ticket, date, is_incoming, user, body) ==
    [message_id |-> <<ticket.ticket_id, date, ReplaceSpaces(user_clean(user))>>,
     subject |-> ticket.title,
     from_address |-> user,
     to_address |-> IF is_incoming THEN CDataJapanSupport ELSE Asteria,
     text_body |-> body,
     message_date |-> date,
     is_incoming |-> is_incoming]
\* AsteriaFetcher._create_email
create_email(ticket, date, is_incoming, user, body) ==
    [message_id |-> <<ticket.ticket_id, date, ReplaceSpaces(user_clean(user))>>,
     subject |-> ticket.title,
     from_address |-> IF is_incoming THEN user ELSE CDataJapanSupport,
     to_address |-> IF is_incoming THEN CDataJapanSupport ELSE Asteria,
     text_body |-> body,
     message_date |-> date,
     is_incoming |-> is_incoming]

\* only the first entry opens a message
FirstEntryOnly(cur, is_incoming) == cur = {}
\* "current_is_incoming is None or current_is_incoming != is_incoming"
DirectionChanged(cur, is_incoming) == cur = {} \/ cur # {is_incoming}

\* the direction left by the previous call
DirectionKept(prev) == prev
\* "current_is_incoming: Optional[bool] = None" at the start of a call
InitialDirection(prev) == {}

\* the flush of lines 130-138 and 153-161
Flushed(ems, body, dir, user, date, fallback_date) ==
    IF body # <<>> /\ dir # {}
    THEN Append(ems,
                create_email(TheTicket,
                             DateOr(date, fallback_date),
                             CHOOSE b \in dir : TRUE,
                             UserOr(user, Unknown),
                             Join(body)))
    ELSE ems

\* _convert_timeline_to_emails as a function of the timeline: the loop of
\* lines 124-150 from entry i on, then the last flush of lines 152-163
RECURSIVE MergeFrom(_, _, _, _, _, _, _)
MergeFrom(tl, i, ems, body, dir, user, date) ==
    IF i > Len(tl)
    THEN Flushed(ems, body, dir, user, date, tl[Len(tl)].timestamp)
    ELSE LET entry == tl[i]
             is_incoming == is_customer_message(entry.user)
             opens == DirectionChanged(dir, is_incoming)
         IN  MergeFrom(tl, i + 1,
                       IF opens
                       THEN Flushed(ems, body, dir, user, date, entry.timestamp)
                       ELSE ems,
                       Append(IF opens THEN <<>> ELSE body, TaggedLine(entry)),
                       IF opens THEN {is_incoming} ELSE dir,
                       IF opens THEN {entry.user} ELSE user,
                       IF opens THEN {entry.timestamp} ELSE date)

\* lines 115-116: "if not timeline: return []", else the loop
convert_timeline_to_emails(tl) ==
    IF tl = <<>> THEN <<>>
    ELSE MergeFrom(tl, 1, <<>>, <<>>, {}, {}, {})

InitMerge ==
    /\ mpc = "idle"
    /\ fetcher = "fetcher_a"
    /\ timeline = <<>>
    /\ timeline_in = <<>>
    /\ k = 0
    /\ emails = <<>>
    /\ current_body = <<>>
    /\ current_is_incoming = {}
    /\ current_user = {}
    /\ current_date = {}
    /\ runs = 0
    /\ memo = {}

\* the first call takes any timeline; a later call takes the timeline of the
\* first call again or another ticket's: one entry, incoming or outgoing
OtherTimelines ==
    {TimelineOf(<<u>>, <<[action_type |-> "OPENED", content |-> ""]>>) :
        u \in {NaoOki, Support}}
NextTimelines ==
    IF memo = {} THEN Timelines
    ELSE {m.timeline : m \in memo} \cup OtherTimelines

\* the instances are alike: the first call runs on fetcher_a, later ones on any
NextFetchers == IF runs = 0 THEN {"fetcher_a"} ELSE Fetchers

\* the first completed call is remembered with what it returned
Remember(m, t, result) ==
    IF m = {} THEN {[timeline |-> t, emails |-> result]} ELSE m

\* lines 115-122: the empty timeline returns at once, else the locals are set
StartConvert ==
    /\ mpc \in {"idle", "done"}
    /\ runs < MaxRuns
    /\ \E t \in NextTimelines, f \in NextFetchers :
         /\ timeline' = t
         /\ timeline_in' = t
         /\ fetcher' = f
         /\ mpc' = IF t = <<>> THEN "done" ELSE "loop"
         /\ k' = IF t = <<>> THEN 0 ELSE 1
    /\ emails' = <<>>
    /\ current_body' = <<>>
    /\ current_is_incoming' = InitialDirection(current_is_incoming)
    /\ current_user' = {}
    /\ current_date' = {}
    /\ runs' = runs + 1
    /\ memo' = IF timeline' = <<>> THEN Remember(memo, timeline', <<>>) ELSE memo

\* lines 124-150: one iteration of "for entry in timeline"
MergeEntry ==
    /\ mpc = "loop"
    /\ k <= Len(timeline)
    /\ LET entry == timeline[k]
           is_incoming == is_customer_message(entry.user)
           opens == DirectionChanged(current_is_incoming, is_incoming)
           body == IF opens THEN <<>> ELSE current_body
       IN  /\ emails' = IF opens
                        THEN Flushed(emails, current_body, current_is_incoming,
                                     current_user, current_date, entry.timestamp)
                        ELSE emails
           /\ current_is_incoming' = IF opens THEN {is_incoming}
                                     ELSE current_is_incoming
           /\ current_user' = IF opens THEN {entry.user} ELSE current_user
           /\ current_date' = IF opens THEN {entry.timestamp} ELSE current_date
           /\ current_body' = Append(body, TaggedLine(entry))
    /\ k' = k + 1
    /\ UNCHANGED <<mpc, fetcher, timeline, timeline_in, runs, memo>>

\* lines 152-163: the last message is saved and emails returned
FlushLast ==
    /\ mpc = "loop"
    /\ k > Len(timeline)
    /\ emails' = Flushed(emails, current_body, current_is_incoming,
                         current_user, current_date,
                         timeline[Len(timeline)].timestamp)
    /\ mpc' = "done"
    /\ memo' = Remember(memo, timeline_in, emails')
    /\ UNCHANGED <<fetcher, timeline, timeline_in, k, current_body,
                   current_is_incoming, current_user, current_date, runs>>

\* ------------------------------------------------------------------------
\* process_all: asteria_summarizer.py, batch_processor.py, batch_reprocess.py
\* ------------------------------------------------------------------------
MaxRows == 3
MaxLimit == 2

\* The three classes that have a process_all
Variants == {"summarizer", "db_batch", "reprocess"}

TicketIds == {"853689", "853690"}

\* The timelines extract_timeline finds in the rows of the model: none, or
\* one entry written by a customer
BatchTimelines ==
    {<<>>, TimelineOf(<<NaoOki>>, <<[action_type |-> "OPENED", content |-> ""]>>)}

\* A row of the export: its ticket id (cells[0]) and the timeline of its
\* details column (cells[9])
Rows == [ticket_id : TicketIds, timeline : BatchTimelines]

Documents == UNION {[1..n -> Rows] : n \in 0..MaxRows}

Limits == {<<>>} \cup {<<n>> : n \in 0..MaxLimit}

NoResults == [total |-> 0, success |-> 0, failed |-> 0, skipped |-> 0,
              summaries |-> <<>>]

\* "if limit:" is the truth value of an Optional[int]
Truthy(lim) == lim # <<>> /\ lim[1] # 0

\* tickets[:limit] when the test above passes
SelectTickets(doc, lim) ==
    IF Truthy(lim) THEN SubSeq(doc, 1, Min(lim[1], Len(doc))) ELSE doc

\* get_ticket_by_id: position of the first row that carries the id, 0 for None
get_ticket_by_id(doc, id) ==
    IF \E r \in 1..Len(doc) : doc[r].ticket_id = id
    THEN CHOOSE r \in 1..Len(doc) :
             /\ doc[r].ticket_id = id
             /\ \A q \in 1..(r - 1) : doc[q].ticket_id # id
    ELSE 0

\* Which exceptions "except Exception" catches: all of them
ExceptionAborts(e) == FALSE

CaughtByLoop(e) == TRUE

\* What generate_summary can do for one ticket
LlmOutcomes == {"ok", "RuntimeError"}

\* What else can go wrong inside process_ticket
Mishaps == {"none", "UnexpectedError"}

\* The summary dict, reduced to its case number, the row it was built from
\* and the way it was produced
Summary(id, row, mode) == [case_number |-> id, row |-> row, mode |-> mode]

\* A plausible slip: the except branch gives up instead of falling back
LlmErrorReturnsNone(id, row, outcome) ==
    IF outcome = "ok"
    THEN [ret |-> <<Summary(id, row, "llm")>>, exc |-> None, call |-> outcome]
    ELSE [ret |-> <<>>, exc |-> None, call |-> outcome]

\* AsteriaSummarizer._generate_summary_with_llm: the RuntimeError of
\* generate_summary is caught and the simple summary returned in its place
generate_summary_with_llm(id, row, outcome) ==
    [ret |-> <<Summary(id, row, IF outcome = "ok" THEN "llm" ELSE "fallback")>>,
     exc |-> None, call |-> outcome]

\* batch_reprocess.py process_ticket: generate_summary is called bare, its
\* RuntimeError leaves process_ticket
reprocess_generate_summary(id, row, outcome) ==
    IF outcome = "ok"
    THEN [ret |-> <<Summary(id, row, "llm")>>, exc |-> None, call |-> outcome]
    ELSE [ret |-> <<>>, exc |-> outcome, call |-> outcome]

\* the messages of each timeline of the model, computed once
BatchEmails == [t \in BatchTimelines |-> convert_timeline_to_emails(t)]

\* AsteriaFetcher.convert_ticket_to_emails
convert_ticket_to_emails(ticket) == BatchEmails[ticket.timeline]

\* the test is left out
NeverEmpty(ems) == FALSE

\* "if not emails:"
NoEmails(ems) == ems = <<>>

\* process_ticket(ticket_id) with the outcome of the external call and of
\* everything else given: [ret |-> <<>> or <<summary>>, exc, call]
process_ticket(v, llm, doc, id, outcome, mishap) ==
    LET row == get_ticket_by_id(doc, id)
        none == [ret |-> <<>>, exc |-> None, call |-> "none"]
    IN  IF row = 0 THEN none
        ELSE IF NoEmails(convert_ticket_to_emails(doc[row])) THEN none
        ELSE IF mishap # "none"
             THEN [ret |-> <<>>, exc |-> mishap, call |-> "none"]
        ELSE IF v = "reprocess"
             THEN reprocess_generate_summary(id, row, outcome)
        ELSE IF llm
             THEN generate_summary_with_llm(id, row, outcome)
        ELSE [ret |-> <<Summary(id, row, "simple")>>, exc |-> None,
              call |-> "none"]

\* _exists_in_db: an error of the query is swallowed and answers False
exists_in_db(id, query_ok) == query_ok /\ id \in db

\* The record of a finished iteration: the row the loop was at, the id it
\* handed on, how the iteration ended, what the external call did, the summary
\* counted (if one was) and the counters after the iteration
Visit(outcome, res) ==
    Append(visited, [row |-> idx, ticket_id |-> tickets[idx].ticket_id,
                     outcome |-> outcome,
                     call |-> llm_result,
                     summary |-> IF outcome = "success" THEN summary ELSE <<>>,
                     success |-> res.success, failed |-> res.failed,
                     calls |-> llm_calls])

InitBatch ==
    /\ bpc = "idle"
    /\ variant \in Variants
    /\ use_llm \in (IF variant = "reprocess" THEN {TRUE} ELSE BOOLEAN)
    /\ dry_run \in (IF variant = "db_batch" THEN BOOLEAN ELSE {FALSE})
    /\ document \in Documents
    /\ limit \in Limits
    /\ db \in (IF variant = "db_batch" THEN SUBSET TicketIds ELSE {{}})
    /\ tickets = <<>> /\ idx = 0 /\ results = NoResults
    /\ summary = <<>> /\ exc = None
    /\ visited = <<>> /\ llm_calls = 0 /\ llm_result = "none"

\* process_all up to the for statement
ProcessAllBegin ==
    /\ bpc = "idle"
    /\ tickets' = SelectTickets(document, limit)
    /\ results' = [NoResults EXCEPT !.total = Len(tickets')]
    /\ idx' = 1
    /\ bpc' = "loop"
    /\ UNCHANGED <<variant, use_llm, dry_run, document, limit, summary, exc,
                   db, visited, llm_calls, llm_result>>

\* batch_processor.py: the ticket is already in the table
SkipExisting ==
    /\ bpc = "loop" /\ idx <= Len(tickets)
    /\ variant = "db_batch"
    /\ \E query_ok \in BOOLEAN : exists_in_db(tickets[idx].ticket_id, query_ok)
    /\ results' = [results EXCEPT !.skipped = @ + 1]
    /\ visited' = Visit("skipped", results')
    /\ idx' = idx + 1
    /\ UNCHANGED <<bpc, variant, use_llm, dry_run, document, limit, tickets,
                   summary, exc, db, llm_calls, llm_result>>

\* summary = self.process_ticket(ticket.ticket_id)
ProcessTicket ==
    /\ bpc = "loop" /\ idx <= Len(tickets)
    /\ \E query_ok \in BOOLEAN, outcome \in LlmOutcomes, mishap \in Mishaps :
         /\ variant = "db_batch"
                => ~exists_in_db(tickets[idx].ticket_id, query_ok)
         /\ LET r == process_ticket(variant, use_llm, document,
                                    tickets[idx].ticket_id, outcome, mishap)
            IN  /\ summary' = r.ret
                /\ exc' = r.exc
                /\ llm_result' = r.call
                /\ llm_calls' = llm_calls + (IF r.call # "none" THEN 1 ELSE 0)
                /\ bpc' = IF r.exc = None THEN "returned" ELSE "raised"
    /\ UNCHANGED <<variant, use_llm, dry_run, document, limit, tickets, idx,
                   results, db, visited>>

\* Does this process_all write the summary to the table before counting it
SavesToDb == variant = "reprocess" \/ (variant = "db_batch" /\ ~dry_run)

\* "if summary:" with a summary: save it where the class saves, count it
StoreSummary ==
    /\ bpc = "returned" /\ summary # <<>>
    /\ \E save_ok \in BOOLEAN :
         IF SavesToDb /\ ~save_ok
         THEN /\ exc' = "sqlite3.Error"
              /\ bpc' = "raised"
              /\ UNCHANGED <<results, db, visited, idx, summary, llm_result>>
         ELSE /\ db' = IF SavesToDb THEN db \cup {summary[1].case_number}
                       ELSE db
              /\ results' =
                    [results EXCEPT
                       !.success = @ + 1,
                       !.summaries = IF variant = "reprocess" THEN @
                                     ELSE Append(@, summary[1])]
              /\ visited' = Visit("success", results')
              /\ idx' = idx + 1
              /\ bpc' = "loop"
              /\ summary' = <<>>
              /\ exc' = None
              /\ llm_result' = "none"
    /\ UNCHANGED <<variant, use_llm, dry_run, document, limit, tickets,
                   llm_calls>>

\* the iteration without a summary is not counted
NoSummaryUncounted ==
    /\ bpc = "returned" /\ summary = <<>>
    /\ visited' = Visit("no_summary", results)
    /\ idx' = idx + 1
    /\ bpc' = "loop"
    /\ llm_result' = "none"
    /\ UNCHANGED <<variant, use_llm, dry_run, document, limit, tickets,
                   results, summary, exc, db, llm_calls>>
\* "else:" process_ticket returned None
NoSummary ==
    /\ bpc = "returned" /\ summary = <<>>
    /\ results' = [results EXCEPT !.failed = @ + 1]
    /\ visited' = Visit("no_summary", results')
    /\ idx' = idx + 1
    /\ bpc' = "loop"
    /\ llm_result' = "none"
    /\ UNCHANGED <<variant, use_llm, dry_run, document, limit, tickets,
                   summary, exc, db, llm_calls>>

\* "except Exception as e:" of the loop body
HandleException ==
    /\ bpc = "raised"
    /\ IF CaughtByLoop(exc)
       THEN /\ results' = [results EXCEPT !.failed = @ + 1]
            /\ visited' = Visit(exc, results')
            /\ idx' = idx + 1
            /\ bpc' = "loop"
            /\ exc' = None
            /\ summary' = <<>>
            /\ llm_result' = "none"
       ELSE /\ bpc' = "aborted"
            /\ UNCHANGED <<results, visited, idx, exc, summary, llm_result>>
    /\ UNCHANGED <<variant, use_llm, dry_run, document, limit, tickets,
                   db, llm_calls>>

\* the for loop is exhausted: return results
ReturnResults ==
    /\ bpc = "loop" /\ idx > Len(tickets)
    /\ bpc' = "done"
    /\ UNCHANGED <<variant, use_llm, dry_run, document, limit, tickets, idx,
                   results, summary, exc, db, visited, llm_calls, llm_result>>

\* ------------------------------------------------------------------------
\* LLMSummarizer._parse_response and build_summary_text
\*
\* A response is a sequence of symbols.  "#", "-", Tick, blank, newline and
\* the brackets are characters; a word the patterns spell out (Symptoms,
\* json, ...) is one symbol, as is a word of body text, since neither the
\* patterns nor the responses of the model ever split one.  The Japanese
\* names and the full-width brackets are written in Latin letters.
\* ------------------------------------------------------------------------
SECTIONS == <<"symptoms", "environment", "error_codes", "customer_ask",
              "our_actions", "outcome", "next_step">>
SectionSet == {SECTIONS[i] : i \in 1..Len(SECTIONS)}

NL == "\n"
Tick == "backquote"       \* the character of a code fence
FwOpen == "(fw"         \* full-width opening bracket
FwClose == "fw)"        \* full-width closing bracket
NoWord == "<no word>"   \* the pattern has no such part

\* the English words of the seven patterns (error_codes: "Error code", "s?")
En == [symptoms |-> "Symptoms", environment |-> "Environment",
       error_codes |-> "Error code", customer_ask |-> "Customer ask",
       our_actions |-> "Our actions", outcome |-> "Outcome",
       next_step |-> "Next step"]
\* the same words in capitals
EnUpper == [symptoms |-> "SYMPTOMS", environment |-> "ENVIRONMENT",
            error_codes |-> "ERROR CODE", customer_ask |-> "CUSTOMER ASK",
            our_actions |-> "OUR ACTIONS", outcome |-> "OUTCOME",
            next_step |-> "NEXT STEP"]
\* the Japanese words of the patterns: genshou, kankyou, kokyaku youbou,
\* taiou naiyou, kekka; the patterns of error_codes and next_step have none
Ja == [symptoms |-> "genshou", environment |-> "kankyou",
       error_codes |-> NoWord, customer_ask |-> "kokyaku youbou",
       our_actions |-> "taiou naiyou", outcome |-> "kekka",
       next_step |-> NoWord]
\* a Japanese name for a section whose pattern has none
Unnamed == "<a Japanese name>"

\* re.IGNORECASE on a word of a pattern
SameIgnoringCase(sym, word) ==
    \/ sym = word
    \/ \E s \in SectionSet : word = En[s] /\ sym = EnUpper[s]
    \/ word = "s" /\ sym = "S"

\* How a response writes its headings
HeadingStyles == {"prompt", "halfwidth", "nobracket", "nospace", "capitals",
                  "singular", "english", "japanese"}

Plural(s, capitals) ==
    IF s = "error_codes" THEN <<IF capitals THEN "S" ELSE "s">> ELSE <<>>

\* the heading line of a section, without its newline
HeadingLine(s, style) ==
    LET en == <<En[s]>> \o (IF style = "singular" THEN <<>>
                             ELSE Plural(s, FALSE))
        ja == IF Ja[s] = NoWord THEN <<>> ELSE <<Ja[s]>>
        br(o, c) == IF ja = <<>> THEN <<>> ELSE <<o>> \o ja \o <<c>>
    IN  CASE style = "prompt" -> <<"#", "#", " ">> \o en \o br(FwOpen, FwClose)
          [] style = "halfwidth" -> <<"#", "#", " ">> \o en \o br("(", ")")
          [] style = "nobracket" -> <<"#", "#", " ">> \o en \o ja
          [] style = "nospace" -> <<"#", "#">> \o en \o br(FwOpen, FwClose)
          [] style = "singular" -> <<"#", "#", " ">> \o en \o br(FwOpen, FwClose)
          [] style = "capitals" ->
                <<"#", "#", " ", EnUpper[s]>> \o Plural(s, TRUE)
                    \o br(FwOpen, FwClose)
          [] style = "english" -> <<"#", "#", " ">> \o en
          [] style = "japanese" ->
                <<"#", "#", " ", IF Ja[s] = NoWord THEN Unnamed ELSE Ja[s]>>

\* a word of body text for each section, so that every body is different
Word == [symptoms |-> "login fails", environment |-> "Drivers/Salesforce",
         error_codes |-> "ORA-00942", customer_ask |-> "a fix",
         our_actions |-> "sent a build", outcome |-> "RESOLVED",
         next_step |-> "kanryou"]

\* How a response lays out the body of a section
BodyLayouts == {"line", "padded", "blank_first", "empty"}
WithBody == BodyLayouts \ {"empty"}

Body(s, layout) ==
    CASE layout = "line" -> <<Word[s]>>
      [] layout = "padded" ->
            <<" ", Word[s], " ", "a", NL, NL, "-", " ", "b", " ">>
      [] layout = "blank_first" -> <<NL, "#", Word[s], Tick>>
      [] layout = "empty" -> <<>>

\* the body as written, without the white space around it
Trimmed(s, layout) ==
    CASE layout = "line" -> <<Word[s]>>
      [] layout = "padded" -> <<Word[s], " ", "a", NL, NL, "-", " ", "b">>
      [] layout = "blank_first" -> <<"#", Word[s], Tick>>
      [] layout = "empty" -> <<>>

SectionBlock(s, style, layout) ==
    HeadingLine(s, style) \o <<NL>> \o Body(s, layout) \o <<NL, NL>>

\* ---- the patterns ---------------------------------------------------------
At(text, i, sym) == i <= Len(text) /\ text[i] = sym

\* the first position from i on that holds no white space (\s*)
RECURSIVE SkipSpace(_, _)
SkipSpace(text, i) ==
    IF i <= Len(text) /\ IsSpace(text[i]) THEN SkipSpace(text, i + 1) ELSE i

\* "\s*\n" from i on, greedy: the position after the last newline of the run
\* of white space that starts at i, or 0 when the run holds no newline
AfterLastNewline(text, i) ==
    LET e == SkipSpace(text, i)
        nls == {n \in i..(e - 1) : text[n] = NL}
    IN  IF nls = {} THEN 0
        ELSE 1 + CHOOSE n \in nls : \A m \in nls : m <= n

\* the English word is enough
HeadingAtEnglishAlone(text, i, s) ==
    LET w == SkipSpace(text, i + 2)
        p == IF s = "error_codes"
                  /\ w + 1 <= Len(text) /\ SameIgnoringCase(text[w + 1], "s")
             THEN w + 2 ELSE w + 1
        o == IF p <= Len(text) /\ text[p] \in {FwOpen, "("} THEN p + 1 ELSE p
        c == IF o + 1 <= Len(text) /\ text[o + 1] \in {FwClose, ")"}
             THEN o + 2 ELSE o + 1
    IN  IF ~(At(text, i, "#") /\ At(text, i + 1, "#")) THEN 0
        ELSE IF ~(w <= Len(text) /\ SameIgnoringCase(text[w], En[s])) THEN 0
        ELSE IF Ja[s] # NoWord /\ At(text, o, Ja[s]) THEN c
        ELSE p

\* r"##\s*<English>[(fw(]?<Japanese>[fw))]?" at position i: the position
\* after the heading, or 0 when the heading does not match there
HeadingAt(text, i, s) ==
    LET w == SkipSpace(text, i + 2)
        p == IF s = "error_codes"
                  /\ w + 1 <= Len(text) /\ SameIgnoringCase(text[w + 1], "s")
             THEN w + 2 ELSE w + 1
        o == IF p <= Len(text) /\ text[p] \in {FwOpen, "("} THEN p + 1 ELSE p
        c == IF o + 1 <= Len(text) /\ text[o + 1] \in {FwClose, ")"}
             THEN o + 2 ELSE o + 1
    IN  IF ~(At(text, i, "#") /\ At(text, i + 1, "#")) THEN 0
        ELSE IF ~(w <= Len(text) /\ SameIgnoringCase(text[w], En[s])) THEN 0
        ELSE IF Ja[s] = NoWord THEN p
        ELSE IF At(text, o, Ja[s]) THEN c
        ELSE 0

\* the lookahead "(?=\n##|\n---|\n<fence>|$)" at position p; a fence is
\* three backquotes
FenceAt(text, p) ==
    At(text, p, Tick) /\ At(text, p + 1, Tick) /\ At(text, p + 2, Tick)

\* the lookahead knows the next heading and the end of the text only
BodyEndsAtHeadingOnly(text, p) ==
    \/ p > Len(text)
    \/ p = Len(text) /\ text[p] = NL
    \/ At(text, p, NL) /\ At(text, p + 1, "#") /\ At(text, p + 2, "#")

BodyEndsAt(text, p) ==
    \/ p > Len(text)
    \/ p = Len(text) /\ text[p] = NL
    \/ /\ At(text, p, NL)
       /\ \/ At(text, p + 1, "#") /\ At(text, p + 2, "#")
          \/ At(text, p + 1, "-") /\ At(text, p + 2, "-") /\ At(text, p + 3, "-")
          \/ FenceAt(text, p + 1)

\* the least number of a non-empty set
Least(S) == CHOOSE n \in S : \A m \in S : n <= m

\* "(.*?)" followed by the lookahead: the first position from i on where the
\* body ends
BodyEnd(text, i) == Least({p \in i..(Len(text) + 1) : BodyEndsAt(text, p)})

\* the pattern of section s at position i: the position where group(1)
\* starts, or 0 when the pattern does not match there
SectionAt(text, i, s) ==
    LET h == HeadingAt(text, i, s)
    IN  IF h = 0 THEN 0 ELSE AfterLastNewline(text, h)

\* re.search(pattern of s, raw_text), the leftmost match: <<>> for no
\* match, else <<group(1)>>
SearchSection(text, s) ==
    LET at == {i \in 1..Len(text) : SectionAt(text, i, s) # 0}
    IN  IF at = {} THEN <<>>
        ELSE LET b == SectionAt(text, Least(at), s)
             IN  <<SubSeq(text, b, BodyEnd(text, b) - 1)>>

\* the first "\n<fence>" from i on, 0 when there is none
ClosingFence(text, i) ==
    LET at == {p \in i..Len(text) : At(text, p, NL) /\ FenceAt(text, p + 1)}
    IN  IF at = {} THEN 0 ELSE Least(at)

\* r"<fence>json\s*\n(.*?)\n<fence>" at position i: <<>> or <<group(1)>>.  "\s*\n"
\* first takes the whole run of white space up to its last newline and gives
\* newlines back until a closing fence follows.
JsonAt(text, i) ==
    LET e == SkipSpace(text, i + 4)
        starts == {n + 1 : n \in {m \in (i + 4)..(e - 1) : text[m] = NL}}
        good == {b \in starts : ClosingFence(text, b) # 0}
    IN  IF ~(FenceAt(text, i) /\ At(text, i + 3, "json")) \/ good = {} THEN <<>>
        ELSE LET b == CHOOSE x \in good : \A y \in good : y <= x
             IN  <<SubSeq(text, b, ClosingFence(text, b) - 1)>>

\* re.search(json_pattern, raw_text), the leftmost match
SearchJson(text) ==
    LET at == {i \in 1..Len(text) : JsonAt(text, i) # <<>>}
    IN  IF at = {} THEN <<>> ELSE JsonAt(text, Least(at))

\* ---- the fenced JSON block ----------------------------------------------
\* JSON texts are sequences of tokens; a string literal is one token
JsonStrings == {"\"category\"", "\"Bug\"", "\"resolved\"", "\"keywords\""}
JsonScalars == JsonStrings \cup {"1", "true", "false", "null"}
JsonWs == {" ", NL, "\t"}

\* decoded values: [t |-> kind, v |-> parts]
JScalar(tok) == [t |-> "scalar", v |-> <<tok>>]
JArray(elems) == [t |-> "array", v |-> elems]
JPair(key, val) == [t |-> "pair", v |-> <<JScalar(key), val>>]
JObject(pairs) == [t |-> "object", v |-> pairs]
EmptyMapping == JObject(<<>>)

JFail == [ok |-> FALSE, val |-> [t |-> "error", v |-> <<>>], next |-> 0]
JDone(val, next) == [ok |-> TRUE, val |-> val, next |-> next]

RECURSIVE SkipWs(_, _)
SkipWs(toks, i) ==
    IF i <= Len(toks) /\ toks[i] \in JsonWs THEN SkipWs(toks, i + 1) ELSE i

\* json.loads: a recursive-descent decoder of value, members and elements
RECURSIVE ParseValue(_, _), ParseMembers(_, _, _), ParseElements(_, _, _)
ParseValue(toks, i) ==
    LET j == SkipWs(toks, i)
    IN  IF j > Len(toks) THEN JFail
        ELSE IF toks[j] \in JsonScalars THEN JDone(JScalar(toks[j]), j + 1)
        ELSE IF toks[j] = "{"
             THEN LET m == SkipWs(toks, j + 1)
                  IN  IF m <= Len(toks) /\ toks[m] = "}"
                      THEN JDone(JObject(<<>>), m + 1)
                      ELSE ParseMembers(toks, m, <<>>)
        ELSE IF toks[j] = "["
             THEN LET m == SkipWs(toks, j + 1)
                  IN  IF m <= Len(toks) /\ toks[m] = "]"
                      THEN JDone(JArray(<<>>), m + 1)
                      ELSE ParseElements(toks, m, <<>>)
        ELSE JFail

ParseMembers(toks, i, acc) ==
    LET j == SkipWs(toks, i)
        c == SkipWs(toks, j + 1)
    IN  IF j > Len(toks) \/ c > Len(toks) THEN JFail
        ELSE IF toks[j] \notin JsonStrings \/ toks[c] # ":" THEN JFail
        ELSE LET r == ParseValue(toks, c + 1)
                 n == SkipWs(toks, r.next)
                 acc2 == Append(acc, JPair(toks[j], r.val))
             IN  IF ~r.ok \/ n > Len(toks) THEN JFail
                 ELSE IF toks[n] = "}" THEN JDone(JObject(acc2), n + 1)
                 ELSE IF toks[n] = "," THEN ParseMembers(toks, n + 1, acc2)
                 ELSE JFail

ParseElements(toks, i, acc) ==
    LET r == ParseValue(toks, i)
        n == SkipWs(toks, r.next)
        acc2 == Append(acc, r.val)
    IN  IF ~r.ok \/ n > Len(toks) THEN JFail
        ELSE IF toks[n] = "]" THEN JDone(JArray(acc2), n + 1)
        ELSE IF toks[n] = "," THEN ParseElements(toks, n + 1, acc2)
        ELSE JFail

\* json.loads(s): [ok |-> FALSE] stands for JSONDecodeError
json_loads(toks) ==
    LET r == ParseValue(toks, 1)
    IN  IF r.ok /\ SkipWs(toks, r.next) > Len(toks) THEN r ELSE JFail

\* The JSON texts a response can carry, each with the value it denotes
\* ([t |-> "error"] when it denotes none)
JsonTexts ==
    [empty_object |-> [text |-> <<"{", "}">>, value |-> JObject(<<>>)],
     flat |-> [text |-> <<"{", NL, " ", " ", "\"category\"", ":", " ", "\"Bug\"",
                          ",", NL, " ", " ", "\"resolved\"", ":", " ", "true",
                          NL, "}">>,
               value |-> JObject(<<JPair("\"category\"", JScalar("\"Bug\"")),
                                   JPair("\"resolved\"", JScalar("true"))>>)],
     nested |-> [text |-> <<"{", "\"keywords\"", ":", " ", "[", "\"Bug\"", ",",
                            " ", "1", "]", ",", " ", "\"category\"", ":", " ",
                            "{", "}", "}">>,
                 value |-> JObject(<<JPair("\"keywords\"",
                                           JArray(<<JScalar("\"Bug\""),
                                                    JScalar("1")>>)),
                                     JPair("\"category\"", JObject(<<>>))>>)],
     array |-> [text |-> <<"[", "1", "]">>,
                value |-> JArray(<<JScalar("1")>>)],
     string |-> [text |-> <<"\"Bug\"">>, value |-> JScalar("\"Bug\"")],
     true_or_false |-> [text |-> <<"{", "\"resolved\"", ":", " ", "true", "/",
                                   "false", "}">>,
                        value |-> JFail.val],
     no_value |-> [text |-> <<"{", "\"category\"", ":", " ", "}">>,
                   value |-> JFail.val],
     open_brace |-> [text |-> <<"{">>, value |-> JFail.val],
     trailing_comma |-> [text |-> <<"{", "\"category\"", ":", " ", "1", ",",
                                    "}">>,
                         value |-> JFail.val]]

\* ---- the responses of the model ------------------------------------------
\* How a response writes its fenced block: as the prompt asks, with blanks
\* and an empty line after "<fence>json", with the closing fence on the line of
\* the last token, without closing fence, without the word json, with JSON
\* in capitals; or not at all
FenceForms == {"proper", "spaced", "same_line", "unclosed", "plain",
               "capitals"}
NoFence == "none"

Fenced(form, json) ==
    CASE form = "proper" ->
            <<Tick, Tick, Tick, "json", NL>> \o json \o <<NL, Tick, Tick, Tick, NL>>
      [] form = "spaced" ->
            <<Tick, Tick, Tick, "json", " ", NL, NL>> \o json
                \o <<NL, Tick, Tick, Tick>>
      [] form = "same_line" ->
            <<Tick, Tick, Tick, "json", NL>> \o json \o <<Tick, Tick, Tick, NL>>
      [] form = "unclosed" -> <<Tick, Tick, Tick, "json", NL>> \o json \o <<NL>>
      [] form = "plain" ->
            <<Tick, Tick, Tick, NL>> \o json \o <<NL, Tick, Tick, Tick, NL>>
      [] form = "capitals" ->
            <<Tick, Tick, Tick, "JSON", NL>> \o json \o <<NL, Tick, Tick, Tick, NL>>
      [] form = NoFence -> <<>>

\* "---" and the Meta line of the prompt
Separator == <<"-", "-", "-", NL, "Meta:", " ", "emails=3", NL, NL>>

\* closed by a fence of its own and holding the word json
IsBlock(form) == form \in {"proper", "spaced"}

\* A response: which sections it has, how it writes their headings and
\* bodies, and what follows them
RECURSIVE SectionBlocks(_, _, _, _)
SectionBlocks(present, style, layout, i) ==
    IF i > Len(SECTIONS) THEN <<>>
    ELSE (IF SECTIONS[i] \in present
          THEN SectionBlock(SECTIONS[i], style, layout) ELSE <<>>)
         \o SectionBlocks(present, style, layout, i + 1)

Compose(r) ==
    SectionBlocks(r.present, r.style, r.layout, 1)
        \o (IF r.sep THEN Separator ELSE <<>>)
        \o Fenced(r.fence, JsonTexts[r.json].text)

NoTail(r) == [r EXCEPT !.sep = FALSE, !.fence = NoFence]

Responses ==
    \* every choice of sections, alone or before separator and block
    [present : SUBSET SectionSet, style : {"prompt"}, layout : BodyLayouts,
     sep : {FALSE}, fence : {NoFence}, json : {"flat"}]
    \cup
    [present : SUBSET SectionSet, style : {"prompt"}, layout : BodyLayouts,
     sep : {TRUE}, fence : {"proper"}, json : {"flat"}]
    \cup
    \* every way of writing the headings
    [present : {SectionSet}, style : HeadingStyles, layout : WithBody,
     sep : {FALSE}, fence : {NoFence}, json : {"flat"}]
    \cup
    \* every fenced block, after all sections and alone
    [present : {SectionSet, {}}, style : {"prompt"}, layout : {"line"},
     sep : BOOLEAN, fence : FenceForms, json : DOMAIN JsonTexts]

\* ---- _parse_response ------------------------------------------------------
\* a section that is not found is given the empty text
EmptyWhenMissing(raw, s) ==
    LET match == SearchSection(raw, s)
    IN  IF match = <<>> THEN << <<>> >> ELSE <<Strip(match[1])>>

\* lines 323-326 for one key: <<>> stands for None
section_value(raw, s) ==
    LET match == SearchSection(raw, s)
    IN  IF match = <<>> THEN <<>> ELSE <<Strip(match[1])>>

\* the decoding error is not caught
DecodeErrorEscapes(raw) ==
    LET json_match == SearchJson(raw)
    IN  IF json_match = <<>> THEN EmptyMapping
        ELSE json_loads(json_match[1]).val

\* lines 328-336: the metadata the result ends with
decode_metadata(raw) ==
    LET json_match == SearchJson(raw)
        decoded == json_loads(json_match[1])
    IN  IF json_match = <<>> THEN EmptyMapping
        ELSE IF decoded.ok THEN decoded.val
        ELSE EmptyMapping

parse_response(ticket_id, raw) ==
    [key \in SectionSet \cup {"case_number", "metadata"} |->
        CASE key = "case_number" -> ticket_id
          [] key = "metadata" -> decode_metadata(raw)
          [] OTHER -> section_value(raw, key)]

NoResult == [key \in {"case_number"} |-> None]

\* ---- build_summary_text ---------------------------------------------------
\* section.replace("_", " ").title()
Title == [symptoms |-> "Symptoms", environment |-> "Environment",
          error_codes |-> "Error Codes", customer_ask |-> "Customer Ask",
          our_actions |-> "Our Actions", outcome |-> "Outcome",
          next_step |-> "Next Step"]

\* the test is "is not None"
IsNotNone(p, s) == p[s] # <<>>

\* the truth value of parsed.get(section): neither None nor ""
HasText(p, s) == p[s] # <<>> /\ p[s][1] # <<>>

HeaderParts(p) ==
    << <<"#", "#", " ", "[AI youyaku]">>, <<>>,
       <<"#", "#", "#", " ", "keesu bangou:", " ", p["case_number"]>>, <<>> >>

RECURSIVE SectionParts(_, _)
SectionParts(p, i) ==
    IF i > Len(SECTIONS) THEN <<>>
    ELSE (IF HasText(p, SECTIONS[i])
          THEN << <<"#", "#", " ", Title[SECTIONS[i]]>>, p[SECTIONS[i]][1],
                  <<>> >>
          ELSE <<>>)
         \o SectionParts(p, i + 1)

build_summary_text(p) == Join(HeaderParts(p) \o SectionParts(p, 1))

\* ---- process_ticket: the Asteria keys of the metadata ----------------------
\* d[key] = val for a dict d: the key's value is replaced, or the key added
SetKey(obj, key, val) ==
    IF \E i \in DOMAIN obj.v : obj.v[i].v[1] = JScalar(key)
    THEN JObject([i \in DOMAIN obj.v |->
                     IF obj.v[i].v[1] = JScalar(key) THEN JPair(key, val)
                     ELSE obj.v[i]])
    ELSE JObject(Append(obj.v, JPair(key, val)))

\* the six assignments of lines 146-151 in their order
AsteriaKeys(ticket_id) ==
    << <<"\"source\"", "\"asteria\"">>, <<"\"area\"", "ticket.area">>,
       <<"\"priority\"", "ticket.priority">>,
       <<"\"importance\"", "ticket.importance">>,
       <<"\"ticket_id\"", ticket_id>>, <<"\"title\"", "ticket.title">> >>

RECURSIVE SetKeys(_, _)
SetKeys(obj, kvs) ==
    IF kvs = <<>> THEN obj
    ELSE SetKeys(SetKey(obj, Head(kvs)[1], JScalar(Head(kvs)[2])), Tail(kvs))

\* lines 144-151 on the metadata of the summary
add_asteria_metadata(meta, ticket_id) ==
    IF meta.t = "object"
    THEN [raised |-> None, metadata |-> SetKeys(meta, AsteriaKeys(ticket_id))]
    ELSE [raised |-> "TypeError", metadata |-> meta]

\* ---- the parser at work ---------------------------------------------------
InitParse ==
    /\ ppc = "response"
    /\ response \in Responses
    /\ raw_text = Compose(response)
    /\ parsed = NoResult
    /\ summary_text = <<>>
    /\ summary_metadata = EmptyMapping

\* parsed = self._parse_response(ticket_id, raw_text)
ParseResponse ==
    /\ ppc = "response"
    /\ \E ticket_id \in TicketIds :
          parsed' = parse_response(ticket_id, raw_text)
    /\ ppc' = "parsed"
    /\ UNCHANGED <<response, raw_text, summary_text, summary_metadata>>

\* summary_text = self.llm_summarizer.build_summary_text(parsed)
BuildSummaryText ==
    /\ ppc = "parsed"
    /\ summary_text' = build_summary_text(parsed)
    /\ ppc' = "built"
    /\ UNCHANGED <<response, raw_text, parsed, summary_metadata>>

\* asteria_summarizer.py 141-151: the summary of the LLM branch carries
\* parsed["metadata"], and process_ticket stores six keys in it.  Storing
\* under a string key raises TypeError unless the value is a dict; the error
\* leaves process_ticket.
AddAsteriaMetadata ==
    /\ ppc = "built"
    /\ LET r == add_asteria_metadata(parsed["metadata"], parsed["case_number"])
       IN  /\ summary_metadata' = r.metadata
           /\ ppc' = IF r.raised = None THEN "returned" ELSE "raised"
    /\ UNCHANGED <<response, raw_text, parsed, summary_text>>

\* ------------------------------------------------------------------------
\* AsteriaHTMLParser.parse_all_tickets, _parse_row and _parse_datetime
\*
\* A cell text is a sequence of tokens: a run of digits is one token, every
\* other character is a token of its own.
\* ------------------------------------------------------------------------
\* the runs of digits of the model and the numbers they denote
Numerals ==
    ("2025" :> 2025) @@ ("01" :> 1) @@ ("1" :> 1) @@ ("02" :> 2)
        @@ ("05" :> 5) @@ ("07" :> 7) @@ ("7" :> 7) @@ ("08" :> 8)
        @@ ("09" :> 9) @@ ("9" :> 9) @@ ("13" :> 13) @@ ("17" :> 17)
        @@ ("30" :> 30) @@ ("45" :> 45)
FourDigits == {"2025"}

\* the formats of _parse_datetime, in the order they are tried; a blank of
\* a format stands for a run of white space
formats ==
    << <<"%Y", "/", "%m", "/", "%d", " ", "%H", ":", "%M">>,
       <<"%Y", "/", "%m", "/", "%d">>,
       <<"%Y", "-", "%m", "-", "%d", " ", "%H", ":", "%M", ":", "%S">> >>

Directives == {"%Y", "%m", "%d", "%H", "%M", "%S"}

\* the numbers a directive of strptime takes
InRange(dir, n) ==
    CASE dir = "%Y" -> TRUE
      [] dir = "%m" -> n \in 1..12
      [] dir = "%d" -> n \in 1..31
      [] dir = "%H" -> n \in 0..23
      [] dir = "%M" -> n \in 0..59
      [] dir = "%S" -> n \in 0..61

\* %Y takes four digits, every other directive one or two
TakenBy(dir, tok) ==
    /\ tok \in DOMAIN Numerals
    /\ (dir = "%Y") = (tok \in FourDigits)
    /\ InRange(dir, Numerals[tok])

NoFields == [d \in Directives |-> <<>>]

\* strptime's pattern of fmt from element f on against str from position i
\* on: <<>> when it does not match the whole rest, else <<the fields>>
RECURSIVE MatchFormat(_, _, _, _, _)
MatchFormat(fmt, f, str, i, got) ==
    IF f > Len(fmt) THEN (IF i > Len(str) THEN <<got>> ELSE <<>>)
    ELSE IF i > Len(str) THEN <<>>
    ELSE IF fmt[f] \in Directives
         THEN IF TakenBy(fmt[f], str[i])
              THEN MatchFormat(fmt, f + 1, str, i + 1,
                               [got EXCEPT ![fmt[f]] = <<Numerals[str[i]]>>])
              ELSE <<>>
    ELSE IF fmt[f] = " "
         THEN IF IsSpace(str[i])
              THEN MatchFormat(fmt, f + 1, str, SkipSpace(str, i), got)
              ELSE <<>>
    ELSE IF str[i] = fmt[f] THEN MatchFormat(fmt, f + 1, str, i + 1, got)
    ELSE <<>>

\* days of a month of a year that is not a leap year
DaysIn(m) == IF m = 2 THEN 28 ELSE IF m \in {4, 6, 9, 11} THEN 30 ELSE 31

OrZero(field) == IF field = <<>> THEN 0 ELSE field[1]

\* datetime.strptime(dt_str, fmt): <<>> for ValueError, else <<datetime>>
strptime(dt_str, fmt) ==
    LET m == MatchFormat(fmt, 1, dt_str, 1, NoFields)
    IN  IF m = <<>> THEN <<>>
        ELSE IF m[1]["%d"][1] > DaysIn(m[1]["%m"][1]) THEN <<>>
        ELSE << <<m[1]["%Y"][1], m[1]["%m"][1], m[1]["%d"][1],
                  OrZero(m[1]["%H"]), OrZero(m[1]["%M"]),
                  OrZero(m[1]["%S"])>> >>

\* only the first format is tried
FirstFormatOnly(dt_str) == strptime(dt_str, formats[1])

\* _parse_datetime: the first format that converts wins; <<>> stands for
\* ValueError("Unable to parse datetime")
parse_datetime(dt_str) ==
    LET fit == {f \in 1..Len(formats) : strptime(dt_str, formats[f]) # <<>>}
    IN  IF fit = {} THEN <<>> ELSE strptime(dt_str, formats[Least(fit)])

\* The timestamp cells of the model, each with the datetime it denotes
\* (<<>> when it denotes none)
Stamps ==
    [minute |-> [text |-> <<"2025", "/", "01", "/", "07", " ", "17", ":", "45">>,
                 value |-> << <<2025, 1, 7, 17, 45, 0>> >>],
     date |-> [text |-> <<"2025", "/", "01", "/", "08">>,
               value |-> << <<2025, 1, 8, 0, 0, 0>> >>],
     seconds |-> [text |-> <<"2025", "-", "01", "-", "07", " ", "17", ":",
                             "45", ":", "09">>,
                  value |-> << <<2025, 1, 7, 17, 45, 9>> >>],
     unpadded |-> [text |-> <<"2025", "/", "1", "/", "7", " ", " ", "9", ":",
                              "05">>,
                   value |-> << <<2025, 1, 7, 9, 5, 0>> >>],
     in_blanks |-> [text |-> <<" ", "2025", "/", "01", "/", "07", " ", "17",
                               ":", "45", "\n">>,
                    value |-> << <<2025, 1, 7, 17, 45, 0>> >>],
     month13 |-> [text |-> <<"2025", "/", "13", "/", "07", " ", "17", ":", "45">>,
                  value |-> <<>>],
     feb30 |-> [text |-> <<"2025", "/", "02", "/", "30">>, value |-> <<>>],
     day_first |-> [text |-> <<"07", "/", "01", "/", "2025">>, value |-> <<>>],
     mixed |-> [text |-> <<"2025", "/", "01", "/", "07", " ", "17", ":", "45",
                           ":", "09">>,
                value |-> <<>>],
     dash_date |-> [text |-> <<"2025", "-", "01", "-", "07">>, value |-> <<>>],
     word |-> [text |-> <<"-">>, value |-> <<>>],
     empty |-> [text |-> <<>>, value |-> <<>>],
     blank |-> [text |-> <<" ">>, value |-> <<>>]]
StampNames == DOMAIN Stamps

\* ---- the export documents of the model -----------------------------------
MaxTr == 2              \* rows of a table body

\* texts of the id and title cells
IdCells == {<<"853689">>, <<" ", "853689", "\n">>, <<>>, <<" ">>}
TitleCells == {<<"MSTeams", " ", "size">>, <<>>}

\* A row (a tr of the body): how many td it has, and the texts of its cells
\* 0, 1, 3 and 4; the other cells are text that is not looked into
GoodTr == [cells |-> 10, id |-> <<"853689">>, title |-> <<"MSTeams", " ", "size">>,
           opened |-> "minute", closed |-> "empty"]

Trs ==
    {[GoodTr EXCEPT !.cells = n] : n \in {0, 9, 10, 11}}
    \cup {[GoodTr EXCEPT !.id = c] : c \in IdCells}
    \cup {[GoodTr EXCEPT !.title = c] : c \in TitleCells}
    \cup {[GoodTr EXCEPT !.opened = s] : s \in StampNames}
    \cup {[GoodTr EXCEPT !.closed = s] : s \in StampNames}

RECURSIVE SeqsUpTo(_, _)
SeqsUpTo(S, n) ==
    IF n = 0 THEN {<<>>}
    ELSE LET shorter == SeqsUpTo(S, n - 1)
         IN  shorter \cup {Append(q, x) : q \in shorter, x \in S}

\* soup.find("table"), table.find("tbody") and the tr children of the body
HtmlFiles ==
    {[table |-> FALSE, tbody |-> FALSE, rows |-> <<>>],
     [table |-> TRUE, tbody |-> FALSE, rows |-> <<>>]}
    \cup [table : {TRUE}, tbody : {TRUE}, rows : SeqsUpTo(Trs, MaxTr)]

\* ---- _parse_row -----------------------------------------------------------
\* cells[i].get_text(strip=True)
get_text(cell) == Strip(cell)

ValueError(message) == [kind |-> "ValueError", message |-> message]
NoException == [kind |-> "none", message |-> ""]

\* _parse_row(row): the ticket, or the exception raised
parse_row(row) ==
    LET ticket_id == get_text(row.id)
        title == get_text(row.title)
        opened == parse_datetime(get_text(Stamps[row.opened].text))
        closed_str == get_text(Stamps[row.closed].text)
        closed == parse_datetime(closed_str)
    IN  IF row.cells < 10
        THEN [raised |-> ValueError("Unexpected row structure")]
        ELSE IF opened = <<>>
        THEN [raised |-> ValueError("Unable to parse datetime")]
        ELSE IF closed_str # <<>> /\ closed = <<>>
        THEN [raised |-> ValueError("Unable to parse datetime")]
        ELSE [raised |-> NoException,
              ticket |-> [ticket_id |-> ticket_id, title |-> title,
                          opened |-> opened[1],
                          closed |-> IF closed_str # <<>> THEN closed
                                     ELSE <<>>]]

\* ---- parse_all_tickets ----------------------------------------------------
\* the cache is filled while the rows are parsed
CacheFilledPerRow(cache, parsed_rows) == <<parsed_rows>>

\* self._tickets while the list of line 82 is being built: the assignment
\* happens when the list is complete
CacheWhileParsing(cache, parsed_rows) == cache

InitExtract ==
    /\ xpc = "idle"
    /\ html \in HtmlFiles
    /\ self_tickets = <<>>
    /\ row_tickets = <<>>
    /\ xret = [exc |-> NoException, tickets |-> <<>>]

\* parse_all_tickets up to the list of line 82: the cached list is returned,
\* or the document is read and its table and body are looked for
ParseAllTickets ==
    /\ xpc \in {"idle", "returned", "raised"}
    /\ row_tickets' = <<>>
    /\ IF self_tickets # <<>>
       THEN /\ xpc' = "returned"
            /\ xret' = [exc |-> NoException, tickets |-> self_tickets]
       ELSE IF ~html.table
       THEN /\ xpc' = "raised"
            /\ xret' = [exc |-> ValueError("No table found in HTML file"),
                        tickets |-> <<>>]
       ELSE IF ~html.tbody
       THEN /\ xpc' = "raised"
            /\ xret' = [exc |-> ValueError("No tbody found in table"),
                        tickets |-> <<>>]
       ELSE /\ xpc' = "rows"
            /\ xret' = [exc |-> NoException, tickets |-> <<>>]
    /\ UNCHANGED <<html, self_tickets>>

\* one element of [self._parse_row(row) for row in rows]
ParseRow ==
    /\ xpc = "rows" /\ Len(row_tickets) < Len(html.rows)
    /\ LET r == parse_row(html.rows[Len(row_tickets) + 1])
       IN  IF r.raised = NoException
           THEN /\ row_tickets' = Append(row_tickets, r.ticket)
                /\ self_tickets' =
                      CacheWhileParsing(self_tickets, row_tickets')
                /\ UNCHANGED <<xpc, xret>>
           ELSE /\ xpc' = "raised"
                /\ xret' = [exc |-> r.raised, tickets |-> <<>>]
                /\ UNCHANGED <<row_tickets, self_tickets>>
    /\ UNCHANGED html

\* self._tickets = [...]; return self._tickets
StoreTickets ==
    /\ xpc = "rows" /\ Len(row_tickets) = Len(html.rows)
    /\ self_tickets' = <<row_tickets>>
    /\ xret' = [exc |-> NoException, tickets |-> <<row_tickets>>]
    /\ xpc' = "returned"
    /\ UNCHANGED <<html, row_tickets>>

\* ------------------------------------------------------------------------
\* AsteriaHTMLParser._clean_details_html
\*
\* The markup of a details cell is a sequence of nodes: a character of text
\* (a letter, a blank, a newline) or an element: a br or a p, which is
\* replaced by a newline as a whole, or a pre holding the text "a".
\* ------------------------------------------------------------------------
MaxDetail == 5          \* nodes of a details markup
DetailNodes == {"a", " ", NL, "<br>", "<p>", "<pre>"}
DetailMarkups == SeqsUpTo(DetailNodes, MaxDetail)

\* what get_text() has for a node after lines 181-186: tag.replace_with("\n")
\* for br, p and li, a fence around the text of a pre or code element
node_text(node) ==
    CASE node \in {"<br>", "<p>"} -> <<NL>>
      [] node = "<pre>" -> <<NL, Tick, Tick, Tick, NL, "a", NL,
                             Tick, Tick, Tick, NL>>
      [] OTHER -> <<node>>

\* soup.get_text()
RECURSIVE soup_text(_)
soup_text(nodes) ==
    IF nodes = <<>> THEN <<>>
    ELSE node_text(Head(nodes)) \o soup_text(Tail(nodes))

\* the newlines text starts with
NewlinesAtHead(text) ==
    Least({n \in 0..Len(text) : n = Len(text) \/ text[n + 1] # NL})

\* re.sub(r"\n{3,}", "\n\n", text)
RECURSIVE collapse_newlines(_)
collapse_newlines(text) ==
    IF text = <<>> THEN <<>>
    ELSE LET n == NewlinesAtHead(text)
         IN  IF n = 0
             THEN <<Head(text)>> \o collapse_newlines(Tail(text))
             ELSE (IF n >= 3 THEN <<NL, NL>> ELSE SubSeq(text, 1, n))
                      \o collapse_newlines(SubSeq(text, n + 1, Len(text)))

\* the character at i is kept by line.rstrip(): it is a newline (split and
\* join keep every one), or its line goes on to a character that is no
\* white space
KeptByRstrip(text, i) ==
    \/ text[i] = NL
    \/ \E j \in i..Len(text) :
          /\ ~IsSpace(text[j])
          /\ \A m \in i..j : text[m] # NL

RECURSIVE KeepFrom(_, _)
KeepFrom(text, i) ==
    IF i > Len(text) THEN <<>>
    ELSE (IF KeptByRstrip(text, i) THEN <<text[i]>> ELSE <<>>)
             \o KeepFrom(text, i + 1)

\* "\n".join(line.rstrip() for line in text.split("\n"))
rstrip_lines(text) == KeepFrom(text, 1)

\* lines 177-196
clean_details_html(nodes) == rstrip_lines(collapse_newlines(soup_text(nodes)))

InitClean ==
    /\ details_html \in DetailMarkups
    /\ cleaned = <<>>

\* text = self._clean_details_html(html)
CleanDetailsHtml ==
    /\ cleaned = <<>>
    /\ cleaned' = <<clean_details_html(details_html)>>
    /\ UNCHANGED details_html
\* ------------------------------------------------------------------------
\* AsteriaHTMLParser.extract_timeline
\*
\* The parsed markup is a sequence of sibling nodes.  A node is a string
\* (name "#text") or an element with its children; texts are sequences of
\* tokens as in the timestamp cells above.
\* ------------------------------------------------------------------------
MaxNodes == 3           \* sibling nodes of a ticket's markup

TextNode(str) == [name |-> "#text", string |-> str, children |-> <<>>]
Element(tag, kids) == [name |-> tag, string |-> <<>>, children |-> kids]

\* The bold texts of the model, each with the fields of the entry it
\* stands for (<<>> when it is the header of no entry)
Bolds ==
    [opened |->
        [text |-> <<" ">> \o Stamps.minute.text
                      \o <<" ", "OPENED", " ", "by", " ", "Alice", " ">>,
         entry |-> <<[timestamp |-> <<2025, 1, 7, 17, 45, 0>>,
                      action_type |-> "OPENED", user |-> <<"Alice">>]>>],
     edited |->
        [text |-> <<"2025", "/", "01", "/", "08", " ", " ", "09", ":", "05",
                    "\t", "EDITED", " ", "by", " ", " ", "Bob", " ", "Lee",
                    " ", NL, "JST">>,
         entry |-> <<[timestamp |-> <<2025, 1, 8, 9, 5, 0>>,
                      action_type |-> "EDITED",
                      user |-> <<"Bob", " ", "Lee">>]>>],
     badstamp |->
        [text |-> Stamps.month13.text
                      \o <<" ", "CLOSED", " ", "by", " ", "Alice">>,
         entry |-> <<>>],
     dateonly |->
        [text |-> Stamps.date.text
                      \o <<" ", "RESOLVED", " ", "by", " ", "Alice">>,
         entry |-> <<>>],
     plain |-> [text |-> <<"Note", ":">>, entry |-> <<>>]]
BoldNames == DOMAIN Bolds

Bold(b) == Element("b", <<TextNode(Bolds[b].text)>>)

\* the word of the text at sibling position i
Words == <<"w1", "w2", "w3", "w4", "w5", "w6">>

\* the nodes that can stand at sibling position i
NodesAt(i) ==
    {Bold(b) : b \in BoldNames}
        \cup {TextNode(<<" ", Words[i], NL>>),
              Element("br", <<>>),
              Element("div", <<TextNode(<<NL, Words[i], " ">>)>>),
              Element("a", <<TextNode(<<Words[i]>>)>>),
              Element("div", <<Bold("opened"),
                               TextNode(<<Words[i]>>)>>)}

Markups ==
    UNION {{m \in [1..n -> UNION {NodesAt(i) : i \in 1..n}] :
                \A i \in 1..n : m[i] \in NodesAt(i)} : n \in 0..MaxNodes}

\* tag.get_text(): the strings below the node in order
RECURSIVE tag_text(_)
RECURSIVE TextOfAll(_)
TextOfAll(nodes) ==
    IF nodes = <<>> THEN <<>>
    ELSE tag_text(Head(nodes)) \o TextOfAll(Tail(nodes))
tag_text(node) ==
    IF node.name = "#text" THEN node.string ELSE TextOfAll(node.children)

\* tag.get_text(strip=True): every string stripped, the empty ones left out
RECURSIVE stripped_text(_)
RECURSIVE StrippedTextOfAll(_)
StrippedTextOfAll(nodes) ==
    IF nodes = <<>> THEN <<>>
    ELSE stripped_text(Head(nodes)) \o StrippedTextOfAll(Tail(nodes))
stripped_text(node) ==
    IF node.name = "#text" THEN Strip(node.string)
    ELSE StrippedTextOfAll(node.children)

ACTION_TYPES == {"OPENED", "ASSIGNED", "EDITED", "RESOLVED", "CLOSED"}

\* the number of digits of a numeral
DigitsOf(tok) ==
    IF tok \in FourDigits THEN 4 ELSE IF tok \in {"1", "7", "9"} THEN 1 ELSE 2

\* lines 215-219; %4 and %2 stand for \d{4} and \d{2}, a blank for \s+, %A
\* for the alternation of the actions and %U for [^\n<]+
timeline_pattern ==
    <<"%4", "/", "%2", "/", "%2", " ", "%2", ":", "%2", " ", "%A", " ",
      "by", " ", "%U">>
StampItems == 9         \* the items of group 1

\* the end of the longest run of [^\n<] from position i on
UserEnd(text, i) ==
    Least({j \in i..Len(text) + 1 :
               j = Len(text) + 1 \/ text[j] \in {NL, "<"}}) - 1

\* the pattern from item f on against text from position i on: <<>> for no
\* match, else <<the groups>>
RECURSIVE MatchPattern(_, _, _, _)
MatchPattern(f, text, i, got) ==
    IF f > Len(timeline_pattern) THEN <<got>>
    ELSE IF i > Len(text) THEN <<>>
    ELSE LET item == timeline_pattern[f]
             step(n, g) == MatchPattern(f + 1, text, n, g)
         IN  CASE item \in {"%4", "%2"} ->
                    IF /\ text[i] \in DOMAIN Numerals
                       /\ DigitsOf(text[i]) = (IF item = "%4" THEN 4 ELSE 2)
                    THEN step(i + 1,
                              IF f = StampItems
                              THEN [got EXCEPT !.stamp_end = i] ELSE got)
                    ELSE <<>>
               [] item = " " ->
                    IF IsSpace(text[i])
                    THEN step(SkipSpace(text, i), got) ELSE <<>>
               [] item = "%A" ->
                    IF text[i] \in ACTION_TYPES
                    THEN step(i + 1, [got EXCEPT !.action_type = text[i]])
                    ELSE <<>>
               [] item = "%U" ->
                    IF UserEnd(text, i) >= i
                    THEN step(UserEnd(text, i) + 1,
                              [got EXCEPT
                                  !.user = SubSeq(text, i, UserEnd(text, i))])
                    ELSE <<>>
               [] OTHER ->
                    IF text[i] = item THEN step(i + 1, got) ELSE <<>>

MatchAt(text, i) ==
    LET m == MatchPattern(1, text, i,
                          [stamp_end |-> 0, action_type |-> "", user |-> <<>>])
    IN  IF m = <<>> THEN <<>>
        ELSE <<[timestamp_str |-> SubSeq(text, i, m[1].stamp_end),
                action_type |-> m[1].action_type,
                user |-> m[1].user]>>

\* pattern.search(text): the leftmost match, <<>> for None
pattern_search(text) ==
    LET at == {i \in 1..Len(text) : MatchAt(text, i) # <<>>}
    IN  IF at = {} THEN <<>> ELSE MatchAt(text, Least(at))

\* soup.find_all("b") in document order; a bold is given by the sequence of
\* siblings it stands in and its position there
RECURSIVE find_all_b(_, _)
find_all_b(nodes, i) ==
    IF i > Len(nodes) THEN <<>>
    ELSE (IF nodes[i].name = "b" THEN <<[siblings |-> nodes, at |-> i]>>
          ELSE find_all_b(nodes[i].children, 1))
             \o find_all_b(nodes, i + 1)

\* the loop of lines 240-257 from the sibling at j on; named tells whether
\* a string of the tree has a name attribute
RECURSIVE walk_siblings(_, _, _)
walk_siblings(siblings, j, named) ==
    IF j > Len(siblings) THEN <<>>
    ELSE LET current == siblings[j]
             rest == walk_siblings(siblings, j + 1, named)
         IN  IF current.name # "#text" \/ named
             THEN CASE current.name = "br" -> <<NL>> \o rest
                    [] current.name = "b" -> <<>>
                    [] current.name \in {"div", "p", "span", "pre", "code"} ->
                         (IF Strip(tag_text(current)) # <<>>
                          THEN tag_text(current) ELSE <<>>) \o rest
                    [] OTHER -> rest
             ELSE Strip(current.string) \o rest

\* the except branch appends an entry without a timestamp
entry_of_unparsed_kept(bold, named) ==
    LET match == pattern_search(stripped_text(bold.siblings[bold.at]))
    IN  IF match = <<>> THEN <<>>
        ELSE <<[timestamp |->
                    IF parse_datetime(match[1].timestamp_str) = <<>>
                    THEN <<>>
                    ELSE parse_datetime(match[1].timestamp_str)[1],
                action_type |-> match[1].action_type,
                user |-> Strip(match[1].user),
                content |-> Strip(walk_siblings(bold.siblings, bold.at + 1,
                                                named))]>>
\* the body of the for loop for one bold: <<>> when it appends nothing,
\* else <<the entry>>
entry_of(bold, named) ==
    LET match == pattern_search(stripped_text(bold.siblings[bold.at]))
    IN  IF match = <<>> THEN <<>>
        ELSE IF parse_datetime(match[1].timestamp_str) = <<>> THEN <<>>
        ELSE <<[timestamp |-> parse_datetime(match[1].timestamp_str)[1],
                action_type |-> match[1].action_type,
                user |-> Strip(match[1].user),
                content |-> Strip(walk_siblings(bold.siblings, bold.at + 1,
                                                named))]>>

RECURSIVE entries_of(_, _)
entries_of(bolds, named) ==
    IF bolds = <<>> THEN <<>>
    ELSE entry_of(Head(bolds), named) \o entries_of(Tail(bolds), named)

\* lines 211-268
extract_timeline(markup, named) == entries_of(find_all_b(markup, 1), named)

InitTimeline ==
    /\ raw_html \in Markups
    /\ string_named \in BOOLEAN
    /\ entries = <<>>

\* timeline = parser.extract_timeline(ticket)
ExtractTimeline ==
    /\ entries = <<>>
    /\ entries' = <<extract_timeline(raw_html, string_named)>>
    /\ UNCHANGED <<raw_html, string_named>>
\* ------------------------------------------------------------------------
\* Specifications: each runs one component; the others stay as constructed
\* ------------------------------------------------------------------------
ParkClient == InitClient

ParkBackoff ==
    /\ b_attempt = 0 /\ b_jitter = 100 /\ b_wait = <<>> /\ b_next = <<>>

ParkClassify ==
    /\ c_user = <<>> /\ c_party = <<>> /\ c_done = FALSE
    /\ c_plain = FALSE /\ c_routed = FALSE

ParkMerge == InitMerge

ParkBatch ==
    /\ bpc = "idle" /\ variant = "summarizer" /\ use_llm = TRUE
    /\ dry_run = FALSE /\ document = <<>> /\ limit = <<>>
    /\ tickets = <<>> /\ idx = 0 /\ results = NoResults
    /\ summary = <<>> /\ exc = None /\ db = {}
    /\ visited = <<>> /\ llm_calls = 0 /\ llm_result = "none"

ParkExtract ==
    /\ xpc = "idle" /\ html = [table |-> FALSE, tbody |-> FALSE, rows |-> <<>>]
    /\ self_tickets = <<>> /\ row_tickets = <<>>
    /\ xret = [exc |-> NoException, tickets |-> <<>>]

ParkParse ==
    /\ ppc = "idle" /\ raw_text = <<>> /\ parsed = NoResult
    /\ summary_text = <<>> /\ response = <<>>
    /\ summary_metadata = EmptyMapping

ParkClean ==
    /\ details_html = <<>> /\ cleaned = <<>>

ParkTimeline ==
    /\ raw_html = <<>> /\ string_named = FALSE /\ entries = <<>>

notClient == <<backoffVars, classifyVars, mergeVars, batchVars, parseVars,
    extractVars,
    cleanVars,
    timelineVars>>
notBackoff == <<clientVars, classifyVars, mergeVars, batchVars, parseVars,
    extractVars,
    cleanVars,
    timelineVars>>
notClassify == <<clientVars, backoffVars, mergeVars, batchVars, parseVars,
    extractVars,
    cleanVars,
    timelineVars>>
notMerge == <<clientVars, backoffVars, classifyVars, batchVars, parseVars,
    extractVars,
    cleanVars,
    timelineVars>>
notBatch == <<clientVars, backoffVars, classifyVars, mergeVars, parseVars,
    extractVars,
    cleanVars,
    timelineVars>>
notExtract == <<clientVars, backoffVars, classifyVars, mergeVars, batchVars,
                parseVars,
    cleanVars,
    timelineVars>>
notParse == <<clientVars, backoffVars, classifyVars, mergeVars, batchVars,
    extractVars,
    cleanVars,
    timelineVars>>

notClean == <<clientVars, backoffVars, classifyVars, mergeVars, batchVars,
    parseVars, extractVars,
    timelineVars>>

notTimeline == <<clientVars, backoffVars, classifyVars, mergeVars,
    batchVars, parseVars, extractVars, cleanVars>>

NextClient ==
    \/ Invoke /\ UNCHANGED notClient
    \/ WaitForRateLimit /\ UNCHANGED notClient
    \/ CallStart /\ UNCHANGED notClient
    \/ CallSucceeds /\ UNCHANGED notClient
    \/ CallUnreadable /\ UNCHANGED notClient
    \/ CallTransient /\ UNCHANGED notClient
    \/ BackoffSleep /\ UNCHANGED notClient
    \/ CallFatal /\ UNCHANGED notClient
    \/ RetriesExhausted /\ UNCHANGED notClient

InitSpecClient ==
    /\ InitClient /\ ParkBackoff /\ ParkClassify /\ ParkMerge /\ ParkBatch
    /\ ParkParse /\ ParkExtract /\ ParkClean /\ ParkTimeline
SpecClient == InitSpecClient /\ [][NextClient]_vars

\* every call and every sleep returns: a started invocation keeps stepping
FairClient ==
    /\ InitSpecClient
    /\ [][NextClient]_vars
    /\ WF_vars(InvocationStep /\ UNCHANGED notClient)

NextBackoff ==
    \/ ComputeBackoff /\ UNCHANGED notBackoff
    \/ ComputeNextBackoff /\ UNCHANGED notBackoff

InitSpecBackoff ==
    /\ InitBackoff /\ ParkClient /\ ParkClassify /\ ParkMerge /\ ParkBatch
    /\ ParkParse /\ ParkExtract /\ ParkClean /\ ParkTimeline
SpecBackoff == InitSpecBackoff /\ [][NextBackoff]_vars

NextClassify ==
    \/ ClassifyActor /\ UNCHANGED notClassify

InitSpecClassify ==
    /\ InitClassify /\ ParkClient /\ ParkBackoff /\ ParkMerge /\ ParkBatch
    /\ ParkParse /\ ParkExtract /\ ParkClean /\ ParkTimeline
SpecClassify == InitSpecClassify /\ [][NextClassify]_vars

NextMerge ==
    \/ StartConvert /\ UNCHANGED notMerge
    \/ MergeEntry /\ UNCHANGED notMerge
    \/ FlushLast /\ UNCHANGED notMerge

InitSpecMerge ==
    /\ InitMerge /\ ParkClient /\ ParkBackoff /\ ParkClassify /\ ParkBatch
    /\ ParkParse /\ ParkExtract /\ ParkClean /\ ParkTimeline
SpecMerge == InitSpecMerge /\ [][NextMerge]_vars

NextBatch ==
    \/ ProcessAllBegin /\ UNCHANGED notBatch
    \/ SkipExisting /\ UNCHANGED notBatch
    \/ ProcessTicket /\ UNCHANGED notBatch
    \/ StoreSummary /\ UNCHANGED notBatch
    \/ NoSummary /\ UNCHANGED notBatch
    \/ HandleException /\ UNCHANGED notBatch
    \/ ReturnResults /\ UNCHANGED notBatch

InitSpecBatch ==
    /\ InitBatch /\ ParkClient /\ ParkBackoff /\ ParkClassify /\ ParkMerge
    /\ ParkParse /\ ParkExtract /\ ParkClean /\ ParkTimeline
SpecBatch == InitSpecBatch /\ [][NextBatch]_vars

NextParse ==
    \/ ParseResponse /\ UNCHANGED notParse
    \/ BuildSummaryText /\ UNCHANGED notParse
    \/ AddAsteriaMetadata /\ UNCHANGED notParse

InitSpecParse ==
    /\ InitParse /\ ParkClient /\ ParkBackoff /\ ParkClassify /\ ParkMerge
    /\ ParkBatch /\ ParkExtract /\ ParkClean /\ ParkTimeline
SpecParse == InitSpecParse /\ [][NextParse]_vars

NextExtract ==
    \/ ParseAllTickets /\ UNCHANGED notExtract
    \/ ParseRow /\ UNCHANGED notExtract
    \/ StoreTickets /\ UNCHANGED notExtract

InitSpecExtract ==
    /\ InitExtract /\ ParkClient /\ ParkBackoff /\ ParkClassify /\ ParkMerge
    /\ ParkBatch /\ ParkParse /\ ParkClean /\ ParkTimeline
SpecExtract == InitSpecExtract /\ [][NextExtract]_vars

NextClean ==
    \/ CleanDetailsHtml /\ UNCHANGED notClean

InitSpecClean ==
    /\ InitClean /\ ParkClient /\ ParkBackoff /\ ParkClassify /\ ParkMerge
    /\ ParkBatch /\ ParkExtract /\ ParkParse /\ ParkTimeline
SpecClean == InitSpecClean /\ [][NextClean]_vars

NextTimeline ==
    \/ ExtractTimeline /\ UNCHANGED notTimeline

InitSpecTimeline ==
    /\ InitTimeline /\ ParkClient /\ ParkBackoff /\ ParkClassify
    /\ ParkMerge /\ ParkBatch /\ ParkExtract /\ ParkParse /\ ParkClean
SpecTimeline == InitSpecTimeline /\ [][NextTimeline]_vars

\* ------------------------------------------------------------------------
\* Claims
\* ------------------------------------------------------------------------
Running == pc \in {"rate_limit", "loop", "calling", "backoff"}
Terminal == pc \in {"success", "failed"}

\* C1: one generate_summary invocation makes at most MAX_RETRIES external
\* calls, and an invocation whose calls all failed transiently (its last call
\* did, so every earlier one did) has failed after exactly MAX_RETRIES calls
\* with the "after retries" error that carries the last transient failure.
C1_BoundedRetries ==
    /\ calls <= MAX_RETRIES
    /\ (pc = "failed" /\ last_outcome \in TransientKinds) =>
          /\ calls = MAX_RETRIES
          /\ error = [kind |-> "retries", cause |-> last_outcome]

C1_Witness ==
    /\ pc = "failed"
    /\ calls = MAX_RETRIES
    /\ sleeps = MAX_RETRIES
    /\ last_outcome = "DeadlineExceeded"
    /\ error = [kind |-> "retries", cause |-> "DeadlineExceeded"]

\* C2: a call that fails with a non-transient failure ends the invocation in
\* that very step, and once the invocation has failed it makes no further
\* external call and no sleep (nothing of the client changes until the
\* caller starts another invocation).
C2_FatalFailsAtOnce ==
    [][ /\ (pc = "calling" /\ last_outcome' \in FatalKinds) =>
              (pc' = "failed" /\ calls' = calls /\ sleeps' = sleeps
                 /\ error' = [kind |-> "api", cause |-> last_outcome'])
        /\ (pc = "failed" /\ invocations' = invocations) =>
              UNCHANGED clientVars ]_vars

C2_Witness ==
    /\ pc = "failed"
    /\ last_outcome \in FatalKinds
    /\ sleeps = 2
    /\ calls = 3

\* C3: every external call of one instance starts at least interval seconds
\* after the completion of the instance's previous external call.
C3_MinInterCallGap ==
    (pc = "calling" /\ call_end # <<>>) => now - call_end[1] >= 100 * interval

\* C4: every started invocation reaches Success or Failed.
C4_Terminates == Running ~> Terminal

C4_Witness ==
    /\ pc = "success"
    /\ calls = MAX_RETRIES
    /\ sleeps = MAX_RETRIES - 1

\* C5: with jitter 1 the wait is non-decreasing from one attempt to the next
\* over the attempts of the loop, and under every jitter the wait is at most
\* MAX_BACKOFF_TIME.
C5_BackoffMonotoneCapped ==
    /\ b_wait # <<>> => b_wait[1] <= 100 * MAX_BACKOFF_TIME
    /\ b_next # <<>> => b_next[1] <= 100 * MAX_BACKOFF_TIME
    /\ (b_jitter = 100 /\ b_next # <<>>) => b_wait[1] <= b_next[1]

C5_Witness ==
    /\ b_attempt = 2
    /\ b_jitter = 120
    /\ b_wait = <<28800>>
    /\ b_next = <<100 * MAX_BACKOFF_TIME>>

\* the computed directions of a timeline, and the number of maximal runs of
\* equal direction in it
Dirs(t) == [i \in 1..Len(t) |-> is_customer_message(t[i].user)]
NumRuns(t) ==
    IF t = <<>> THEN 0
    ELSE 1 + Cardinality({i \in 2..Len(t) : Dirs(t)[i] # Dirs(t)[i - 1]})

\* the tagged lines in a body, and the position in the timeline of the first
\* entry merged into the j-th message
LineCount(body) == Cardinality({i \in DOMAIN body : body[i] = "["})
RECURSIVE LinesBefore(_, _)
LinesBefore(ems, j) ==
    IF j <= 1 THEN 0
    ELSE LinesBefore(ems, j - 1) + LineCount(ems[j - 1].text_body)
FirstOf(ems, j) == LinesBefore(ems, j) + 1

\* C6: the messages are the maximal runs of consecutive entries of one
\* computed direction: as many messages as runs, adjacent messages of
\* different direction, every entry merged into a message of its direction,
\* and every entry merged into some message.
C6_MessagesAreMaximalRuns ==
    mpc = "done" =>
        /\ Len(emails) = NumRuns(timeline_in)
        /\ \A j \in 1..(Len(emails) - 1) :
               emails[j].is_incoming # emails[j + 1].is_incoming
        /\ LinesBefore(emails, Len(emails) + 1) = Len(timeline_in)
        /\ \A j \in 1..Len(emails) :
               \A i \in FirstOf(emails, j)..LinesBefore(emails, j + 1) :
                   /\ i <= Len(timeline_in)
                   /\ Dirs(timeline_in)[i] = emails[j].is_incoming

C6_Witness ==
    /\ mpc = "done"
    /\ Dirs(timeline_in) = <<TRUE, TRUE, FALSE>>
    /\ Len(emails) = 2
    /\ LineCount(emails[1].text_body) = 2
    /\ emails[1].is_incoming

\* C7 as stated: every message carries the actor and the timestamp of the
\* first entry merged into it.
C7_ActorAndDateOfFirstEntry ==
    mpc = "done" =>
        \A j \in 1..Len(emails) :
            /\ FirstOf(emails, j) <= Len(timeline_in)
            /\ emails[j].from_address = timeline_in[FirstOf(emails, j)].user
            /\ emails[j].message_date = timeline_in[FirstOf(emails, j)].timestamp

\* C7 amended: every message carries the timestamp of the first entry merged
\* into it; an incoming message carries that entry's actor as its sender, an
\* outgoing message always has the sender "CData Japan Support", and the
\* first entry's actor, without its routing suffix, ends the message id.
C7_DateOfFirstEntryActorIfIncoming ==
    mpc = "done" =>
        \A j \in 1..Len(emails) :
            /\ FirstOf(emails, j) <= Len(timeline_in)
            /\ LET first == timeline_in[FirstOf(emails, j)]
               IN  /\ emails[j].message_date = first.timestamp
                   /\ emails[j].is_incoming =>
                          emails[j].from_address = first.user
                   /\ ~emails[j].is_incoming =>
                          emails[j].from_address = CDataJapanSupport
                   /\ emails[j].message_id[3] =
                          ReplaceSpaces(user_clean(first.user))

C7_Witness ==
    /\ mpc = "done"
    /\ Len(timeline_in) = 3
    /\ timeline_in[1].user = NaoOki
    /\ timeline_in[2].user = NaoOki
    /\ timeline_in[3].user = Support
    /\ Len(emails) = 2
    /\ emails[1].from_address = NaoOki
    /\ emails[1].message_date = 1
    /\ emails[2].from_address = CDataJapanSupport
    /\ emails[2].message_date = 3

\* C9: the call does not change the entries, and a call on the entries of
\* the first call returns what the first call returned, on either fetcher
\* and whatever was converted in between.
C9_ReconstructionIsPure ==
    /\ mpc \in {"loop", "done"} => timeline = timeline_in
    /\ mpc = "done" =>
           \A m \in memo : m.timeline = timeline_in => emails = m.emails

C9_Witness ==
    /\ mpc = "done"
    /\ runs = 3
    /\ fetcher = "fetcher_b"
    /\ Len(timeline_in) = 3
    /\ Len(emails) = 3
    /\ \E m \in memo : m.timeline = timeline_in /\ m.emails = emails
    /\ current_body = <<TaggedLine(timeline_in[3])>>

\* the trimmed actor ends in a whitespace-separated word "to"
EndsWithBareTo(x) ==
    LET str == Strip(x)
        n == Len(str)
    IN  n >= 3 /\ str[n - 1] = "t" /\ str[n] = "o" /\ IsSpace(str[n - 2])

\* the trimmed actor holds a routing suffix of its own
HasRoutingSuffix(x) ==
    \E i \in 1..Len(Strip(x)) : SuffixMatchesAt(Strip(x), i)

\* C8 as stated: "X to Y" is classified as X is, for every X.
C8_RoutedClassifiedAsPlain ==
    c_done => c_routed = c_plain

\* C8 amended: a customer-side name is incoming, a support-side name and a
\* name of neither set are outgoing, with or without a routing suffix
\* " to Y"; and "X to Y" is classified as X is for every X that does not
\* itself end in a whitespace-separated word "to".
C8_RoutedAsPlainUnlessBareTo ==
    c_done =>
        /\ Strip(c_user) \in CUSTOMER_USERS => (c_plain /\ c_routed)
        /\ Strip(c_user) \in SUPPORT_USERS => (~c_plain /\ ~c_routed)
        /\ (~HasRoutingSuffix(c_user) /\ Strip(c_user) \notin CUSTOMER_USERS)
               => ~c_plain
        /\ ~EndsWithBareTo(c_user) => c_routed = c_plain

C8_Witness ==
    /\ c_done
    /\ c_user = GoEnomoto \o <<" ">>
    /\ c_party = CDataJapanSupport
    /\ c_plain
    /\ c_routed

\* ------------------------------------------------------------------------
\* C10: in a batch run the loop takes up every selected ticket exactly once
\* and in document order: the finished iterations are always the first
\* idx - 1 selected rows, one record each, in the order of the document, and
\* the selected rows are a prefix of the document.  An exception raised in
\* the loop body (the external call's RuntimeError, a failed save, anything
\* else) never leaves process_all: it is counted and the loop goes on, so
\* that when process_all returns every selected ticket has been attempted.
\* ------------------------------------------------------------------------
Errors == {"RuntimeError", "UnexpectedError", "sqlite3.Error"}

C10_EveryTicketAttemptedOnceInOrder ==
    /\ bpc # "aborted"
    /\ bpc # "idle" =>
         /\ Len(tickets) <= Len(document)
         /\ \A j \in 1..Len(tickets) : tickets[j] = document[j]
         /\ Len(visited) = idx - 1
         /\ \A j \in 1..Len(visited) :
               /\ visited[j].row = j
               /\ visited[j].ticket_id = document[j].ticket_id
    /\ bpc = "done" => Len(visited) = Len(tickets)

\* a finished batch in which the external call failed for the first ticket
\* and the two tickets after it were still attempted, one with success
C10_Witness ==
    /\ bpc = "done" /\ variant = "reprocess"
    /\ Len(visited) = 3
    /\ visited[1].outcome = "RuntimeError"
    /\ visited[2].outcome = "success"
    /\ visited[3].outcome \in Errors

\* ------------------------------------------------------------------------
\* C11 (as stated): a ticket whose summarization call ran out of retries is
\* reported as exactly one failure: the failed counter grows by one for it,
\* the success counter does not, and no summary is returned for it.
\* ------------------------------------------------------------------------
Before(j, field) == IF j = 1 THEN 0 ELSE visited[j - 1][field]

OneFailure(j) ==
    /\ visited[j].outcome = "RuntimeError"
    /\ visited[j].failed = Before(j, "failed") + 1
    /\ visited[j].success = Before(j, "success")
    /\ visited[j].summary = <<>>

C11_ExhaustedIsOneFailure ==
    \A j \in 1..Len(visited) :
        visited[j].call = "RuntimeError" => OneFailure(j)

\* the fallback summary is counted as one success, unless saving it fails
OneFallbackSuccess(j) ==
    \/ /\ visited[j].outcome = "success"
       /\ visited[j].summary # <<>>
       /\ visited[j].summary[1].mode = "fallback"
       /\ visited[j].summary[1].case_number = visited[j].ticket_id
       /\ visited[j].success = Before(j, "success") + 1
       /\ visited[j].failed = Before(j, "failed")
    \/ /\ visited[j].outcome = "sqlite3.Error"
       /\ variant = "db_batch" /\ ~dry_run
       /\ visited[j].failed = Before(j, "failed") + 1
       /\ visited[j].success = Before(j, "success")

\* how an iteration ends follows from its own ticket and its own call alone
OwnOutcome(j) ==
    LET r == get_ticket_by_id(document, visited[j].ticket_id)
        o == visited[j].outcome
    IN  /\ o = "skipped" => variant = "db_batch" /\ visited[j].call = "none"
        /\ (o # "skipped" /\ document[r].timeline = <<>>) =>
               o = "no_summary" /\ visited[j].call = "none"
        /\ (o # "skipped" /\ document[r].timeline # <<>>) =>
               \/ o = "UnexpectedError" /\ visited[j].call = "none"
               \/ /\ o # "UnexpectedError"
                  /\ (visited[j].call = "none") = ~use_llm
                  /\ visited[j].call \in {"none", "ok"} =>
                        \/ o = "success"
                              /\ visited[j].success = Before(j, "success") + 1
                              /\ visited[j].failed = Before(j, "failed")
                        \/ o = "sqlite3.Error" /\ SavesToDb

\* C11 (amended): where the call's RuntimeError reaches the loop
\* (batch_reprocess.py) the ticket is exactly one failure; AsteriaSummarizer,
\* and batch_processor.py through it, count the fallback summary of that
\* ticket as one success; every other ticket ends as its own data and its
\* own call decide.
C11_ExhaustedFailsOrFallsBack ==
    \A j \in 1..Len(visited) :
        /\ visited[j].call = "RuntimeError" =>
              IF variant = "reprocess" THEN OneFailure(j)
              ELSE OneFallbackSuccess(j)
        /\ OwnOutcome(j)

\* three tickets, the call of the middle one ran out of retries, the calls
\* of its neighbours succeeded
C11_Witness ==
    /\ bpc = "done" /\ Len(visited) = 3
    /\ visited[1].call = "ok" /\ visited[1].outcome = "success"
    /\ visited[2].call = "RuntimeError"
    /\ visited[3].call = "ok" /\ visited[3].outcome = "success"

\* ------------------------------------------------------------------------
\* C12: an empty entry sequence reconstructs to no message, and a ticket
\* that yields no message is skipped: process_ticket returns None for it
\* without a generate_summary invocation (the only place that waits or
\* calls), the iteration counts no summary, and the loop goes on to the
\* next ticket until every selected ticket has been taken up.
\* ------------------------------------------------------------------------
TicketOf(j) == document[get_ticket_by_id(document, visited[j].ticket_id)]

C12_EmptyTicketSkipped ==
    /\ \A r \in 1..Len(document) :
          document[r].timeline = <<>> =>
              convert_ticket_to_emails(document[r]) = <<>>
    /\ \A j \in 1..Len(visited) :
          (convert_ticket_to_emails(TicketOf(j)) = <<>>
              /\ visited[j].outcome # "skipped") =>
             /\ visited[j].outcome = "no_summary"
             /\ visited[j].summary = <<>>
             /\ visited[j].call = "none"
             /\ visited[j].calls = Before(j, "calls")
    /\ (bpc = "returned" /\ summary = <<>>) => llm_result = "none"
    /\ bpc = "done" => Len(visited) = Len(tickets)

\* a batch whose first ticket has no entries and whose second ticket was
\* summarized by the external call
C12_Witness ==
    /\ bpc = "done" /\ Len(visited) = 2
    /\ TicketOf(1).timeline = <<>>
    /\ visited[1].outcome = "no_summary"
    /\ visited[2].outcome = "success"
    /\ visited[2].call = "ok"
    /\ llm_calls = 1

\* ------------------------------------------------------------------------
\* The summary parser
\* ------------------------------------------------------------------------
Parsed == ppc \in {"parsed", "built", "returned", "raised"}

\* every section of the response has a body
Bodied == response.layout \in WithBody

\* the value the response denotes for section s: its body without the white
\* space around it
BodyOf(s) == <<Trimmed(s, response.layout)>>

\* the result of parsing the response written differently
ParsedAs(r) == parse_response(parsed["case_number"], Compose(r))

\* C13: for a response that has all seven headings as the prompt writes
\* them, each followed by a body, and then one fenced block with a valid
\* JSON object, the seven fields of the result are the bodies without their
\* leading and trailing white space and the metadata is the decoded object.
C13_RoundTrip ==
    (/\ Parsed /\ Bodied
     /\ response.present = SectionSet /\ response.style = "prompt"
     /\ IsBlock(response.fence)
     /\ JsonTexts[response.json].value.t = "object") =>
        /\ \A s \in SectionSet : parsed[s] = BodyOf(s)
        /\ parsed["metadata"] = JsonTexts[response.json].value

\* all seven sections with bodies padded by blanks and holding an empty
\* line, then separator and block: fields trimmed, metadata decoded
C13_Witness ==
    /\ Parsed
    /\ response.present = SectionSet /\ response.style = "prompt"
    /\ response.layout = "padded"
    /\ response.sep /\ response.fence = "proper" /\ response.json = "flat"
    /\ parsed["next_step"] = <<Trimmed("next_step", "padded")>>
    /\ Len(parsed["metadata"].v) = 2

\* C14: whatever sections a response lacks, the parse returns a result in
\* which each missing section is None and each present section has the value
\* it has when the response lacks none.
C14_MissingSections ==
    (Parsed /\ Bodied /\ response.style = "prompt") =>
        \A s \in SectionSet :
            /\ s \notin response.present => parsed[s] = <<>>
            /\ s \in response.present =>
                  parsed[s] =
                      ParsedAs([response EXCEPT !.present = SectionSet])[s]

\* a response with only environment and outcome
C14_Witness ==
    /\ Parsed /\ Bodied
    /\ response.present = {"environment", "outcome"}
    /\ parsed["symptoms"] = <<>> /\ parsed["next_step"] = <<>>
    /\ parsed["environment"] = BodyOf("environment")
    /\ parsed["outcome"] = BodyOf("outcome")

\* C15 as claimed: each section is found under its English heading alone and
\* under its Japanese heading alone, in any letter case.
C15_EitherLanguageAlone ==
    (/\ Parsed /\ Bodied /\ response.present = SectionSet
     /\ response.style \in {"english", "japanese", "capitals"}) =>
        \A s \in SectionSet : parsed[s] = BodyOf(s)

\* the sections whose pattern names no Japanese word
EnglishOnly == {s \in SectionSet : Ja[s] = NoWord}

\* C15: each section is found under the heading the prompt asks for, in any
\* letter case: the English name followed by the Japanese name, with or
\* without full-width or half-width brackets, for symptoms, environment,
\* customer_ask, our_actions and outcome; the English name alone (Error code
\* or Error codes, Next step) for error_codes and next_step.  The English
\* name alone of the other five, and a Japanese name alone, is not found.
C15_HeadingAsPrompted ==
    (Parsed /\ Bodied /\ response.present = SectionSet) =>
        \A s \in SectionSet :
            /\ response.style \in {"prompt", "halfwidth", "nobracket",
                                   "nospace", "capitals", "singular"} =>
                  parsed[s] = BodyOf(s)
            /\ response.style = "english" =>
                  parsed[s] = IF s \in EnglishOnly THEN BodyOf(s) ELSE <<>>
            /\ response.style = "japanese" => parsed[s] = <<>>

\* English headings alone: only error_codes and next_step are found
C15_Witness ==
    /\ Parsed /\ response.style = "english"
    /\ response.present = SectionSet /\ response.layout = "line"
    /\ parsed["symptoms"] = <<>>
    /\ parsed["error_codes"] = BodyOf("error_codes")
    /\ parsed["next_step"] = BodyOf("next_step")

\* C16: without a fenced JSON block, or with a block that is not well-formed
\* JSON, the parse returns a result with an empty metadata mapping; a
\* well-formed block is decoded into the metadata; in every case the seven
\* fields are what they are without anything after the sections.
C16_MetadataOrEmpty ==
    (Parsed /\ Bodied /\ response.style = "prompt") =>
        /\ (~IsBlock(response.fence)
              \/ JsonTexts[response.json].value.t = "error") =>
                parsed["metadata"] = EmptyMapping
        /\ (IsBlock(response.fence)
              /\ JsonTexts[response.json].value.t # "error") =>
                parsed["metadata"] = JsonTexts[response.json].value
        /\ \A s \in SectionSet : parsed[s] = ParsedAs(NoTail(response))[s]

\* a block whose JSON has a comma before the closing brace, after all seven
\* sections
C16_Witness ==
    /\ Parsed /\ response.present = SectionSet
    /\ response.fence = "proper" /\ response.json = "trailing_comma"
    /\ parsed["metadata"] = EmptyMapping
    /\ parsed["outcome"] = BodyOf("outcome")

\* the summary text that lists the sections of keep, in the fixed order
RECURSIVE Listing(_, _, _)
Listing(p, keep, i) ==
    IF i > Len(SECTIONS) THEN <<>>
    ELSE (IF SECTIONS[i] \in keep
          THEN <<"#", "#", " ", Title[SECTIONS[i]], NL>>
                   \o p[SECTIONS[i]][1] \o <<NL, NL>>
          ELSE <<>>)
         \o Listing(p, keep, i + 1)

Canonical(p, keep) ==
    <<"#", "#", " ", "[AI youyaku]", NL, NL,
      "#", "#", "#", " ", "keesu bangou:", " ", p["case_number"], NL, NL>>
        \o Listing(p, keep, 1)

\* what "\n".join leaves out: the newline after the last part
WithoutLast(text) == SubSeq(text, 1, Len(text) - 1)

\* C17 as claimed: the summary text lists exactly the sections that are
\* present (not None) in the parsed result.
C17_ListsPresentSections ==
    ppc = "built" =>
        summary_text =
            WithoutLast(Canonical(parsed,
                                  {s \in SectionSet : parsed[s] # <<>>}))

\* C17: the summary text lists exactly the sections whose text in the parsed
\* result is not empty, each under its normalized heading followed by its
\* text, in the order symptoms, environment, error_codes, customer_ask,
\* our_actions, outcome, next_step; a section that is None or empty
\* contributes no heading and no placeholder.
C17_ListsSectionsWithText ==
    ppc = "built" =>
        summary_text =
            WithoutLast(Canonical(parsed,
                {s \in SectionSet : parsed[s] # <<>> /\ parsed[s][1] # <<>>}))

\* a response that ends with the heading of next_step: the field is the
\* empty text and the summary text lists the other six sections only
C17_Witness ==
    /\ ppc = "built"
    /\ response.present = SectionSet /\ response.layout = "empty"
    /\ response.fence = NoFence
    /\ parsed["next_step"] = << <<>> >>
    /\ parsed["outcome"] # <<>> /\ parsed["outcome"][1] # <<>>
    /\ \E i \in 1..Len(summary_text) : summary_text[i] = Title["outcome"]
    /\ \A i \in 1..Len(summary_text) : summary_text[i] # Title["next_step"]

\* ------------------------------------------------------------------------
\* The ticket extractor
\* ------------------------------------------------------------------------
\* a parse_all_tickets call has ended
CallEnded == xpc \in {"returned", "raised"}

\* the document has no table, no table body, or a body row with fewer than
\* 10 cells
Malformed(h) ==
    ~h.table \/ ~h.tbody \/ \E i \in 1..Len(h.rows) : h.rows[i].cells < 10

\* C18: parsing a document without table, without table body or with a body
\* row of fewer than 10 cells ends with a ValueError, whichever call it is;
\* no ticket of the document is returned and self._tickets stays None.
C18_MalformedIsFatal ==
    Malformed(html) =>
        /\ self_tickets = <<>>
        /\ CallEnded =>
              /\ xpc = "raised"
              /\ xret.exc.kind = "ValueError"
              /\ xret.tickets = <<>>

\* a well-formed row was parsed before the row with 9 cells raised
C18_Witness ==
    /\ xpc = "raised"
    /\ Len(html.rows) = 2 /\ html.rows[1] = GoodTr /\ html.rows[2].cells = 9
    /\ Len(row_tickets) = 1
    /\ xret.exc = ValueError("Unexpected row structure")
    /\ self_tickets = <<>>

\* the rows _parse_row has been called on in the call that is running or
\* has ended
RowsParsed ==
    IF xpc = "rows" THEN 1..Len(row_tickets)
    ELSE IF xpc = "raised" /\ html.table /\ html.tbody
    THEN 1..(Len(row_tickets) + 1)
    ELSE IF xpc = "returned" THEN 1..Len(row_tickets)
    ELSE {}

\* the cell holds no text
EmptyCell(name) == name \in {"empty", "blank"}
HoldsText(cell) == \E i \in 1..Len(cell) : cell[i] \notin {" ", "\n", "\t"}

\* at least 10 cells and an opened cell in an accepted format
AsClaimed(row) == row.cells >= 10 /\ Stamps[row.opened].value # <<>>

\* ... and a closed cell that is empty or in an accepted format
WellFormed(row) ==
    /\ AsClaimed(row)
    /\ EmptyCell(row.closed) \/ Stamps[row.closed].value # <<>>

\* C19 as claimed: every row with at least 10 cells and an opened cell in an
\* accepted format yields a ticket with non-empty id and title, the parsed
\* opened timestamp, and no closed timestamp when the closed cell is empty.
C19_RowYieldsTicket ==
    \A i \in RowsParsed :
        AsClaimed(html.rows[i]) =>
            /\ i <= Len(row_tickets)
            /\ row_tickets[i].ticket_id # <<>>
            /\ row_tickets[i].title # <<>>
            /\ row_tickets[i].opened = Stamps[html.rows[i].opened].value[1]
            /\ EmptyCell(html.rows[i].closed) => row_tickets[i].closed = <<>>

\* C19: every row with at least 10 cells, an opened cell in an accepted
\* format and a closed cell that is empty or in an accepted format yields a
\* ticket whose id and title are the texts of the first two cells without
\* surrounding white space (non-empty exactly when the cell holds text),
\* whose opened timestamp is the parsed value and whose closed timestamp is
\* absent when the closed cell is empty.
C19_WellFormedRowYieldsTicket ==
    \A i \in RowsParsed :
        WellFormed(html.rows[i]) =>
            /\ i <= Len(row_tickets)
            /\ (row_tickets[i].ticket_id # <<>>) = HoldsText(html.rows[i].id)
            /\ row_tickets[i].ticket_id \in {<<>>, <<"853689">>}
            /\ (row_tickets[i].title # <<>>) = HoldsText(html.rows[i].title)
            /\ row_tickets[i].opened = Stamps[html.rows[i].opened].value[1]
            /\ EmptyCell(html.rows[i].closed) => row_tickets[i].closed = <<>>
            /\ ~EmptyCell(html.rows[i].closed) =>
                  row_tickets[i].closed = Stamps[html.rows[i].closed].value

\* a row whose opened cell has the second format and a row whose closed cell
\* holds a blank only
C19_Witness ==
    /\ xpc = "returned" /\ Len(row_tickets) = 2
    /\ html.rows[1].opened = "date"
    /\ row_tickets[1].opened = <<2025, 1, 8, 0, 0, 0>>
    /\ html.rows[2].closed = "blank"
    /\ row_tickets[2].closed = <<>>
    /\ row_tickets[2].ticket_id = <<"853689">>

\* C20: an invocation follows Idle -> RateLimitWait -> Calling -> {Success |
\* BackoffWait -> Calling | Failed}: the rate-limit wait is evaluated once and
\* before the first call; a backoff wait is slept only after a transient
\* failure and the step after it is another external call; Failed is entered
\* from Calling; after Success or Failed the invocation neither calls nor
\* sleeps.
C20_StateMachine ==
    [][ /\ rate_checks' # rate_checks =>
              \/ pc = "rate_limit" /\ rate_checks = 0 /\ calls = 0
              \/ invocations' # invocations
        /\ calls' = calls + 1 => rate_checks = 1
        /\ sleeps' # sleeps =>
              \/ pc = "backoff" /\ last_outcome \in TransientKinds
              \/ invocations' # invocations
        /\ (pc = "loop" /\ sleeps > 0) =>
              (pc' = "calling" /\ calls' = calls + 1)
        /\ (pc' = "failed" /\ pc # "failed") => pc = "calling"
        /\ (Terminal /\ invocations' = invocations) =>
              (calls' = calls /\ sleeps' = sleeps /\ now' = now) ]_vars

\* the line the claim gives an entry, and the lines of the entries a..b
ClaimedLine(entry) ==
    IF entry.content = ""
    THEN <<"[", entry.action_type, "]">>
    ELSE <<"[", entry.action_type, "]", " ", entry.content>>
ClaimedLines(t, a, b) == [i \in 1..(b - a + 1) |-> ClaimedLine(t[a + i - 1])]

\* C21: the messages cut the timeline into consecutive, non-empty stretches
\* that follow each other without gap or overlap and cover it, and the body
\* of each message is the newline-join, in source order, of the tagged lines
\* '[ACTION] content' (bare '[ACTION]' for an empty content) of its stretch.
C21_OneLinePerEntryInOrder ==
    mpc = "done" =>
        /\ LinesBefore(emails, Len(emails) + 1) = Len(timeline_in)
        /\ \A j \in 1..Len(emails) :
               LET a == FirstOf(emails, j)
                   b == LinesBefore(emails, j + 1)
               IN  /\ a <= b
                   /\ b <= Len(timeline_in)
                   /\ emails[j].text_body =
                          Join(ClaimedLines(timeline_in, a, b))

C21_Witness ==
    /\ mpc = "done"
    /\ Len(timeline_in) = 3
    /\ Len(emails) = 2
    /\ emails[1].text_body =
          <<"[", "OPENED", "]", "\n", "[", "EDITED", "]", " ", "added log">>
    /\ emails[2].text_body = <<"[", "OPENED", "]">>

\* C26: last_call_time changes only in the step in which an external call
\* returns a response, and is then the completion time of that call; a call
\* that raises (a retried or any other error), a backoff sleep, the
\* rate-limit wait and the start of an invocation leave it unchanged; it
\* never decreases.
C26_LastCallTimeFrame ==
    [][ /\ (pc = "calling" /\ last_outcome' \in {"ok", "unreadable"}) =>
              (last_call_time' = now' /\ call_end' = <<now'>>)
        /\ ~(pc = "calling" /\ last_outcome' \in {"ok", "unreadable"}) =>
              last_call_time' = last_call_time
        /\ (pc = "calling"
              /\ last_outcome' \in TransientKinds \cup FatalKinds) =>
              (last_call_time' = last_call_time /\ now' > now)
        /\ last_call_time' >= last_call_time
        /\ now' >= now ]_vars

\* the second invocation succeeds after one backoff sleep; the first one
\* had stamped an earlier time
C26_Witness ==
    /\ invocations = 2
    /\ pc = "success"
    /\ sleeps = 1
    /\ last_call_time = now
    /\ last_call_time > 100 * (StartClock + CallDur + BASE_BACKOFF_TIME)

\* C25: process_all(limit=n) attempts the first n tickets of the document
\* (all of them when the document has fewer), in order, for every n >= 0, so
\* none for n = 0; without a limit it attempts all tickets.
C25_LimitBoundsAttempts ==
    /\ bpc # "idle" =>
          tickets = IF limit = <<>> THEN document
                    ELSE SubSeq(document, 1, Min(limit[1], Len(document)))
    /\ bpc = "done" =>
          /\ Len(visited) = Len(tickets)
          /\ limit # <<>> => Len(visited) <= limit[1]
          /\ \A i \in 1..Len(visited) :
                /\ visited[i].row = i
                /\ visited[i].ticket_id = document[i].ticket_id

\* the counters of the results, and the tickets the loop is done with
Counted == results.success + results.failed + results.skipped
Attempted == IF bpc = "idle" THEN 0 ELSE idx - 1

\* what C27 says of the counters alone, at every step and at the return
CountersAddUp ==
    /\ bpc # "idle" => results.total = Len(tickets)
    /\ Counted = Attempted
    /\ Counted = Len(visited)
    /\ variant # "db_batch" => results.skipped = 0
    /\ bpc = "done" => Counted = results.total

\* C27 as claimed: total is the number of selected tickets, the counters sum
\* to the tickets attempted so far at every step and to total at the return,
\* and the number of returned summaries equals success, in all three
\* process_all.
C27_CountersAndSummaries ==
    /\ CountersAddUp
    /\ bpc = "done" => Len(results.summaries) = results.success

\* C27: total is the number of selected tickets, the counters (success,
\* failed, and skipped in the database batch processor) sum to the tickets
\* attempted so far at every step and to total at the return; AsteriaSummarizer
\* and the database batch processor return as many summaries as they count
\* successes, batch_reprocess.py returns the counters and no summaries.
C27_CountersAndSummariesWhereReturned ==
    /\ CountersAddUp
    /\ variant # "reprocess" => Len(results.summaries) = results.success
    /\ variant = "reprocess" => results.summaries = <<>>

\* a database batch of a skipped ticket, a success and a failure
C27_Witness ==
    /\ bpc = "done" /\ variant = "db_batch"
    /\ results.total = 3
    /\ results.skipped = 1 /\ results.success = 1 /\ results.failed = 1
    /\ Len(results.summaries) = 1

\* C28: the attempt made at step i uses the data of the i-th row: a summary
\* counted at step i was built from row i, and step i ends without a summary
\* (and without an error) only when row i itself yields no message; also
\* when two rows carry the same ticket id.
C28_RowSummarizedFromOwnData ==
    \A j \in 1..Len(visited) :
        /\ visited[j].summary # <<>> => visited[j].summary[1].row = j
        /\ visited[j].outcome = "no_summary" =>
              convert_ticket_to_emails(document[j]) = <<>>

\* the symbols that belong to the heading line or the body of a section
\* other than s, or to the separator and what follows it
ForeignTo(s) ==
    {Word[q] : q \in SectionSet \ {s}} \cup {En[q] : q \in SectionSet}
        \cup {"-", "Meta:", "emails=3", "json"}
Holds(text, syms) == \E i \in DOMAIN text : text[i] \in syms

\* C29: the value of a section ends before the next heading line, separator
\* line or fence line after its heading: it holds no symbol of a heading, of
\* another section's body or of the separator and the block, and a section
\* whose heading is followed by blank lines only yields the empty text.
C29_ValueStaysInSection ==
    (Parsed /\ response.style = "prompt") =>
        \A s \in response.present :
            /\ parsed[s] # <<>>
            /\ response.layout # "padded" =>
                  ~Holds(parsed[s][1], ForeignTo(s))
            /\ response.layout = "padded" =>
                  ~Holds(parsed[s][1], ForeignTo(s) \ {"-"})
            /\ response.layout = "empty" => parsed[s] = << <<>> >>

\* the value stored under a key of a decoded object, <<>> when it has none
ValueOf(obj, key) ==
    IF obj.t = "object" /\ \E i \in DOMAIN obj.v : obj.v[i].v[1] = JScalar(key)
    THEN <<(CHOOSE pair \in {obj.v[i] : i \in DOMAIN obj.v} :
                pair.v[1] = JScalar(key)).v[2]>>
    ELSE <<>>

\* C30: whatever the fenced block decodes to, the metadata of the parse
\* result is a mapping, process_ticket adds its keys without error, and the
\* summary it returns has metadata.source = 'asteria' and metadata.ticket_id
\* equal to the ticket's id.
C30_MetadataIsMapping ==
    /\ Parsed => parsed["metadata"].t = "object"
    /\ ppc # "raised"
    /\ ppc = "returned" =>
          /\ ValueOf(summary_metadata, "\"source\"") =
                <<JScalar("\"asteria\"")>>
          /\ ValueOf(summary_metadata, "\"ticket_id\"") =
                <<JScalar(parsed["case_number"])>>

\* ------------------------------------------------------------------------
\* C24: the text _clean_details_html returns never holds three or more
\* consecutive newline characters (more than one consecutive blank line),
\* and no line of it ends in white space, whatever the markup is, lines of
\* white space only included.
\* ------------------------------------------------------------------------
ThreeNewlines(text) ==
    \E i \in 1..Len(text) - 2 :
        text[i] = NL /\ text[i + 1] = NL /\ text[i + 2] = NL

LineEndsInSpace(text) ==
    \E i \in 1..Len(text) :
        /\ text[i] \in {" ", "\t"}
        /\ (i = Len(text) \/ text[i + 1] = NL)

C24_NoBlankRunNoTrailingSpace ==
    cleaned # <<>> =>
        /\ ~ThreeNewlines(cleaned[1])
        /\ ~LineEndsInSpace(cleaned[1])

\* the half of C24 that the code keeps: no line ends in white space
C24_NoTrailingSpace ==
    cleaned # <<>> => ~LineEndsInSpace(cleaned[1])

\* the other half holds for markup without a line of white space only
C24_NoBlankRunWithoutSpaceLines ==
    (cleaned # <<>> /\ \A i \in 1..Len(details_html) : details_html[i] # " ")
        => ~ThreeNewlines(cleaned[1])

\* ------------------------------------------------------------------------
\* C22: extract_timeline yields one entry per bold header that matches
\* "<timestamp> <ACTION> by <actor>" with a timestamp that parses, in
\* document order.  A matching header whose timestamp does not parse drops
\* only its own entry, a bold that does not match yields none, and markup
\* without a header yields the empty list.
\* ------------------------------------------------------------------------
\* the names of the bolds of a markup in document order, those inside a
\* container included
RECURSIVE BoldsIn(_)
BoldsIn(nodes) ==
    IF nodes = <<>> THEN <<>>
    ELSE LET node == Head(nodes)
         IN  (IF node.name = "b"
              THEN <<CHOOSE b \in BoldNames : node = Bold(b)>>
              ELSE BoldsIn(node.children)) \o BoldsIn(Tail(nodes))

\* the entries the bolds stand for, in order
RECURSIVE EntriesOfBolds(_)
EntriesOfBolds(names) ==
    IF names = <<>> THEN <<>>
    ELSE Bolds[Head(names)].entry \o EntriesOfBolds(Tail(names))

HeaderFields(entry) ==
    [timestamp |-> entry.timestamp, action_type |-> entry.action_type,
     user |-> entry.user]

C22_OneEntryPerParseableHeader ==
    entries # <<>> =>
        LET expected == EntriesOfBolds(BoldsIn(raw_html))
        IN  /\ Len(entries[1]) = Len(expected)
            /\ \A j \in 1..Len(expected) :
                   HeaderFields(entries[1][j]) = expected[j]

\* a header with an unparseable timestamp stands between two headers, and
\* both headers have their entry
C22_Witness ==
    /\ entries # <<>>
    /\ BoldsIn(raw_html) = <<"opened", "badstamp", "edited">>
    /\ Len(entries[1]) = 2
    /\ entries[1][2].action_type = "EDITED"

\* ------------------------------------------------------------------------
\* C23: the content of an entry is the trimmed text of the nodes between
\* its header and the header of the next entry (or the end of the tree): it
\* holds all the text in between, none from before its header or from after
\* the next entry's header, so no text belongs to two entries.
\* ------------------------------------------------------------------------
WordSet == {Words[i] : i \in 1..Len(Words)}

\* the markup in document order, reduced to the headers of entries ("#h")
\* and the words of the text
RECURSIVE HeadersAndWords(_)
HeadersAndWords(nodes) ==
    IF nodes = <<>> THEN <<>>
    ELSE LET node == Head(nodes)
             here == IF node.name = "b"
                     THEN IF Bolds[CHOOSE b \in BoldNames :
                                       node = Bold(b)].entry # <<>>
                          THEN <<"#h">> ELSE <<>>
                     ELSE IF node.name = "#text"
                     THEN SelectSeq(node.string, LAMBDA c : c \in WordSet)
                     ELSE HeadersAndWords(node.children)
         IN  here \o HeadersAndWords(Tail(nodes))

\* the words between the j-th header and the next one
WordsOfEntry(flat, j) ==
    {flat[p] : p \in {q \in 1..Len(flat) :
        /\ flat[q] # "#h"
        /\ Cardinality({h \in 1..q : flat[h] = "#h"}) = j}}

WordsIn(content) ==
    {content[i] : i \in 1..Len(content)} \cap WordSet

C23_ContentIsTextUpToNextHeader ==
    entries # <<>> =>
        \A j \in 1..Len(entries[1]) :
            /\ WordsIn(entries[1][j].content)
                   = WordsOfEntry(HeadersAndWords(raw_html), j)
            /\ entries[1][j].content = Strip(entries[1][j].content)

\* the statement holds where strings have no name attribute, every bold is
\* the header of an entry and stands among the siblings, and the text lies
\* in strings and containers
PlainMarkup ==
    /\ ~string_named
    /\ \A i \in 1..Len(raw_html) :
          /\ raw_html[i].name # "a"
          /\ raw_html[i].name = "b" =>
                 raw_html[i] \in {Bold("opened"), Bold("edited")}
          /\ \A c \in 1..Len(raw_html[i].children) :
                 raw_html[i].children[c].name # "b"

C23_ContentOfPlainMarkup == PlainMarkup => C23_ContentIsTextUpToNextHeader

\* which part fails where
C23_NoTextOfTwoEntries ==
    entries # <<>> =>
        \A i, j \in 1..Len(entries[1]) :
            i # j => WordsIn(entries[1][i].content)
                         \cap WordsIn(entries[1][j].content) = {}
====
